---- MODULE Spec2Model ----
(***************************************************************************)
(* Model of the LSP client (TypeScriptLSPClient) and of the workspace      *)
(* registry (TypeScriptWorkspaceManager) of src/lib/typescript-operations. *)
(*                                                                         *)
(* JavaScript runs one macrotask (an I/O event, a timer callback, a call   *)
(* made by a caller) at a time and drains all promise continuations        *)
(* (microtasks) before the next one.  An action of this model is one       *)
(* macrotask together with the microtasks it enables.  The code run by an  *)
(* action is written as state transformers over a record S holding all     *)
(* program variables, named after the methods of the source.               *)
(***************************************************************************)
EXTENDS Integers, Sequences, FiniteSets, TLC

\* ---- bounds of the model ----
NSess == 2          \* Session objects that may be constructed
MaxProc == 2        \* subprocesses that may be spawned
MaxRequestId == 3   \* ids one Session may allocate
MaxTasks == 2       \* suspended async calls at one time
MaxToolRequests == 1  \* requests sent by the tool handlers through the registry

\* ---- program constants ----
StartupTimeoutMs == 5000
RequestTimeoutMs == 10000
InitTimeoutMs == 10000

Sess == 1..NSess
Proc == 1..MaxProc
Ids == 1..MaxRequestId
IsolationTag == "#typescript-lsp"
Keys == {"/a", "/a#typescript-lsp"}
Docs == {"file:///a/x.ts"}
\* the files callers of ensureDocumentOpen name; one has ENOENT in its name
Paths == Docs \cup {"file:///a/ENOENT.ts"}
\* String.prototype.includes('ENOENT') on the strings of the model
ContainsENOENT(str) == str \in {"ENOENT", "file:///a/ENOENT.ts"}
NoKey == "-"
AllKeys == "*"

VARIABLES
  workspaces,        \* TypeScriptWorkspaceManager.workspaces : key -> Session (0 = absent)
  nSessions,         \* number of Session objects constructed so far
  path,              \* constructor argument of each Session
  process,           \* Session.process (0 = null, else a subprocess handle)
  requestId,         \* Session.requestId
  pendingRequests,   \* Session.pendingRequests (its key set)
  initialized,       \* Session.initialized
  openDocuments,     \* Session.openDocuments (insertion ordered)
  tempDir,           \* Session.tempDir (0 = undefined, else the n-th scratch directory)
  promise,           \* the promise returned by sendRequest, per Session and id
  procs,             \* the subprocesses: state, owner, attached handlers
  stdin,             \* messages written to each subprocess, in order
  tasks,             \* suspended async calls (initialize, shutdown, ensureDocumentOpen)
  disk,              \* scratch directories created and not handed to rm()
  closeAllWaiting,   \* shutdowns a running closeAll() still awaits (-1 = no closeAll running)
  closeAllSnapshot,  \* the Sessions the running closeAll() shut down
  issued,            \* history: ids assigned by sendRequest, in order, per Session
  inbox,             \* per subprocess: ids of the requests it has read and not answered
  exposed,           \* Sessions some caller holds a reference to
  returned,          \* history: Sessions returned by getOrCreateWorkspace per key
  reused,            \* history: keys for which getOrCreateWorkspace returned the registered Session
  initFailed,        \* history: Sessions whose initialize() has thrown
  toolRequests,      \* number of requests the tool handlers have sent
  initOk,            \* history: Sessions whose initialize() has completed successfully
  docResult,         \* how the ensureDocumentOpen call that returned in the last step ended ("" = none did)
  initError,         \* the error the initialize() call that failed in the last step threw ("" = none did)
  toolResult,        \* the tool result a handler of index.ts returned in the last step
  shutdownCalled,    \* history: Sessions on which shutdown() was called and initialize() was not called since
  listeners,         \* per Session: the event names that have a listener (EventEmitter.on)
  dispatched,        \* the messages emit() handed to a listener in the last step
  buffer,            \* Session.buffer of the client whose stdout stream is observed
  wire,              \* the chunks of bytes its stdout stream delivers, in order
  delivered,         \* number of chunks the data handler has received
  emitted,           \* messages processBuffer handed to handleMessage, in order
  frame              \* the messages that were framed onto the stream

vars == <<workspaces, nSessions, path, process, requestId, pendingRequests,
          initialized, openDocuments, tempDir, promise, procs, stdin, tasks,
          disk, closeAllWaiting, closeAllSnapshot, issued, inbox,
          exposed, returned, reused, initFailed, initOk, toolRequests, docResult,
          initError, toolResult, shutdownCalled, listeners, dispatched,
          buffer, wire, delivered, emitted, frame>>

sessionVars == <<workspaces, nSessions, path, process, requestId, pendingRequests,
          initialized, openDocuments, tempDir, promise, procs, stdin, tasks,
          disk, closeAllWaiting, closeAllSnapshot, issued, inbox,
          exposed, returned, reused, initFailed, initOk, toolRequests, docResult,
          initError, toolResult, shutdownCalled, listeners, dispatched>>

framerVars == <<buffer, wire, delivered, emitted, frame>>

\* no tool handler returned
NoResult == [file |-> "", text |-> "", location |-> <<>>, answer |-> <<>>,
             failed |-> FALSE, missing |-> FALSE, isError |-> FALSE]

\* The program state as one record, for the state transformers below.
\* err is the exception a transformer threw ("" = none); docResult,
\* initError, toolResult and dispatched start empty in every step.
Cur ==
  [workspaces |-> workspaces, nSessions |-> nSessions, path |-> path,
   process |-> process, requestId |-> requestId,
   pendingRequests |-> pendingRequests, initialized |-> initialized,
   openDocuments |-> openDocuments, tempDir |-> tempDir, promise |-> promise,
   procs |-> procs, stdin |-> stdin, tasks |-> tasks, disk |-> disk,
   closeAllWaiting |-> closeAllWaiting,
   closeAllSnapshot |-> closeAllSnapshot, issued |-> issued,
   inbox |-> inbox, exposed |-> exposed, returned |-> returned,
   reused |-> reused, initFailed |-> initFailed, initOk |-> initOk, toolRequests |-> toolRequests,
   docResult |-> [s \in Sess |-> ""], initError |-> [s \in Sess |-> ""],
   toolResult |-> NoResult, shutdownCalled |-> shutdownCalled,
   listeners |-> listeners, dispatched |-> <<>>, err |-> ""]

\* The timer of a settled request is not kept in the state: its callback finds
\* the id gone from the pending table (line 476) and does nothing.  The age of
\* a request is kept while it is pending and when it was rejected by its timer.
Forget(S, s, i) ==
  LET r == S.promise[s][i]
  IN IF r.st \in {"none", "pending"} THEN r
     ELSE [r EXCEPT !.timer = -1,
                    !.age = IF r.val = <<"Request timeout">> THEN @ ELSE 0]

\* A subprocess that was killed or is gone answers nothing any more.
Silent(S, p) == S.procs[p].killed \/ S.procs[p].st \in {"exited", "failed"}

\* The state a macrotask leaves behind.
Commit(S) ==
  /\ workspaces' = S.workspaces
  /\ nSessions' = S.nSessions
  /\ path' = S.path
  /\ process' = S.process
  /\ requestId' = S.requestId
  /\ pendingRequests' = S.pendingRequests
  /\ initialized' = S.initialized
  /\ openDocuments' = S.openDocuments
  /\ tempDir' = S.tempDir
  /\ procs' = S.procs
  /\ stdin' = S.stdin
  /\ tasks' = S.tasks
  /\ disk' = S.disk
  /\ closeAllWaiting' = S.closeAllWaiting
  /\ closeAllSnapshot' = S.closeAllSnapshot
  /\ issued' = S.issued
  /\ exposed' = S.exposed
  /\ returned' = S.returned
  /\ reused' = S.reused
  /\ initFailed' = S.initFailed
  /\ initOk' = S.initOk
  /\ toolRequests' = S.toolRequests
  /\ docResult' = S.docResult
  /\ initError' = S.initError
  /\ toolResult' = S.toolResult
  /\ shutdownCalled' = S.shutdownCalled
  /\ listeners' = S.listeners
  /\ dispatched' = S.dispatched
  /\ promise' = [s \in Sess |-> [i \in Ids |-> Forget(S, s, i)]]
  /\ inbox' = [p \in Proc |-> IF Silent(S, p) THEN {} ELSE S.inbox[p]]
  /\ UNCHANGED framerVars

Unused == [st |-> "none", val |-> <<>>, method |-> "", timer |-> -1, age |-> 0, calls |-> 0]
NoProc == [st |-> "unused", owner |-> 0, killed |-> FALSE, dataH |-> FALSE, exitH |-> FALSE]

Min(a, b) == IF a < b THEN a ELSE b

\* constructor: the real workspace root is the key up to the first '#'
WorkspaceRootOf(key) == IF key = "/a#typescript-lsp" THEN "/a" ELSE key

Task(kind, s, arg, pc, p, id, dir, t1, t2) ==
  [kind |-> kind, s |-> s, arg |-> arg, pc |-> pc, p |-> p, id |-> id,
   dir |-> dir, t1 |-> t1, t2 |-> t2, missing |-> FALSE, position |-> <<>>]

Remove(seq, i) == SubSeq(seq, 1, i - 1) \o SubSeq(seq, i + 1, Len(seq))

\* The suspended calls form a multiset; it is kept as a sequence ordered by
\* Rank so that one multiset has one representation.
KindRank(kind) ==
  IF kind = "initialize" THEN 0 ELSE IF kind = "shutdown" THEN 1
  ELSE IF kind = "ensureDocumentOpen" THEN 2 ELSE 3
Rank(t) == (t.s * 4 + KindRank(t.kind)) * (MaxRequestId + 1) + t.id
Insert(seq, t) ==
  LET n == Cardinality({i \in 1..Len(seq) : Rank(seq[i]) <= Rank(t)})
  IN SubSeq(seq, 1, n) \o <<t>> \o SubSeq(seq, n + 1, Len(seq))

\* a message: languageId, text and version are those of a didOpen's
\* textDocument, position is <<line, character>> of a position request
Msg(method, id, uri) ==
  [method |-> method, id |-> id, uri |-> uri, languageId |-> "", text |-> "", version |-> 0,
   position |-> <<>>]

FileContent == "content"
Placeholder == "// File not found\n"

\* ---------------------------------------------------------------------
\* TypeScriptLSPClient: the synchronous code of each method
\* ---------------------------------------------------------------------

\* sendMessage: throws when there is no subprocess handle, else writes the frame
sendMessage(S, s, msg) ==
  IF S.process[s] = 0
    THEN [S EXCEPT !.err = "TypeScript Language Server not running"]
    ELSE [S EXCEPT !.stdin[S.process[s]] = Append(@, msg),
                   !.inbox[S.process[s]] = IF msg.id = 0 THEN @ ELSE @ \cup {msg.id}]

\* sendNotification
sendNotification(S, s, method, uri) == sendMessage(S, s, Msg(method, 0, uri))

\* sendNotification('textDocument/didOpen', {textDocument: {uri, languageId, version: 1, text}})
didOpen(S, s, uri, languageId, text) ==
  sendMessage(S, s, [Msg("textDocument/didOpen", 0, uri) EXCEPT
                       !.languageId = languageId, !.text = text, !.version = 1])

\* the files of a workspace with sources of every kind
SourceFiles == {"file:///a/m.js", "file:///a/c.jsx", "file:///a/c.tsx",
                "file:///a/x.ts", "file:///a/p.json"}

\* String.prototype.endsWith(suffix) on the paths of the model
endsWith(filePath, suffix) ==
  \/ suffix = ".js" /\ filePath = "file:///a/m.js"
  \/ suffix = ".jsx" /\ filePath = "file:///a/c.jsx"
  \/ suffix = ".tsx" /\ filePath = "file:///a/c.tsx"
  \/ suffix = ".ts" /\ filePath \in {"file:///a/x.ts", "file:///a/ENOENT.ts"}
  \/ suffix = ".json" /\ filePath = "file:///a/p.json"

\* openDocument: the languageId it derives from the file extension
languageIdOf(filePath) ==
  IF endsWith(filePath, ".js") \/ endsWith(filePath, ".jsx") THEN "javascript"
  ELSE IF endsWith(filePath, ".tsx") THEN "typescriptreact"
  ELSE IF endsWith(filePath, ".jsx") THEN "javascriptreact"
  ELSE "typescript"

\* sendRequest with the params of a position request (uri, position):
\* allocates the id, registers the continuation, writes the
\* request and arms the 10 s timer.  A throw of sendMessage inside the promise
\* executor rejects the promise; the entry stays in the table and no timer is set.
sendRequestAt(S, s, method, uri, position) ==
  LET id == S.requestId[s] + 1
      S1 == [S EXCEPT !.requestId[s] = id,
                      !.issued[s] = Append(@, id),
                      !.pendingRequests[s] = @ \cup {id}]
      S2 == sendMessage(S1, s, [Msg(method, id, uri) EXCEPT !.position = position])
  IN IF S2.err # ""
       THEN [S2 EXCEPT !.err = "",
                       !.promise[s][id] = [st |-> "rejected", val |-> <<S2.err>>,
                                           method |-> method, timer |-> -1,
                                           age |-> 0, calls |-> 1]]
       ELSE [S2 EXCEPT !.promise[s][id] = [st |-> "pending", val |-> <<>>,
                                           method |-> method,
                                           timer |-> RequestTimeoutMs,
                                           age |-> 0, calls |-> 0]]

\* sendRequest of a request without document params
sendRequest(S, s, method) == sendRequestAt(S, s, method, "", <<>>)

\* resolve / reject of the promise of request id: only the first call settles it
settle(S, s, id, st, val) ==
  [S EXCEPT !.promise[s][id] =
     IF @.st = "pending"
       THEN [@ EXCEPT !.st = st, !.val = val, !.calls = @ + 1]
       ELSE [@ EXCEPT !.calls = @ + 1]]

\* Variant of handleMessage with order-keyed matching: a response settles the
\* oldest outstanding request, whatever id it carries.
handleMessageInOrder(S, s, id, isError, val) ==
  IF S.pendingRequests[s] # {}
    THEN LET j == CHOOSE x \in S.pendingRequests[s] : \A y \in S.pendingRequests[s] : x <= y
         IN settle([S EXCEPT !.pendingRequests[s] = @ \ {j}], s, j,
                   IF isError THEN "rejected" ELSE "resolved", val)
    ELSE S

\* Variant of handleMessage that settles without looking the id up.
handleMessageUnchecked(S, s, id, isError, val) ==
  settle([S EXCEPT !.pendingRequests[s] = @ \ {id}], s, id,
         IF isError THEN "rejected" ELSE "resolved", val)

\* handleMessage for a response {id, result | error}: id-keyed lookup
handleMessage(S, s, id, isError, val) ==
  IF id \in S.pendingRequests[s]
    THEN settle([S EXCEPT !.pendingRequests[s] = @ \ {id}], s, id,
                IF isError THEN "rejected" ELSE "resolved", val)
    ELSE S

\* the methods of the messages a server sends on its own; "error" is the
\* event name EventEmitter treats specially
Methods == {"window/logMessage", "workspace/configuration", "error"}

\* what JSON.parse hands to handleMessage: id 0 = no id, method "" = no
\* method, body "" = neither result nor error
Incoming == [id : 0..MaxRequestId, method : Methods \cup {""}, body : {"", "result", "error"}]

IsResponse(m) == m.id # 0 /\ m.body # ""

\* EventEmitter.emit(message.method, message.params): every listener of
\* exactly that name is called; 'error' without a listener throws
emit(S, s, m) ==
  IF m.method \in S.listeners[s] THEN [S EXCEPT !.dispatched = Append(@, m)]
  ELSE IF m.method = "error" THEN [S EXCEPT !.err = "Unhandled error"]
  ELSE S

\* handleMessage with both of its branches
handleIncoming(S, s, m) ==
  IF IsResponse(m)
    THEN handleMessage(S, s, m.id, m.body = "error",
                       IF m.body = "error" THEN <<"error", m.id>> ELSE <<"result", m.id>>)
  ELSE IF m.method # "" THEN emit(S, s, m)
  ELSE S

\* the try/catch of processBuffer around handleMessage swallows what it throws
tryHandleMessage(S, s, m) == [handleIncoming(S, s, m) EXCEPT !.err = ""]

\* Variant of the timer callback that drops the whole pending table.
requestTimeoutDropsAll(S, s, id) ==
  LET S1 == [S EXCEPT !.promise[s][id].timer = -1]
  IN IF id \in S1.pendingRequests[s]
       THEN settle([S1 EXCEPT !.pendingRequests[s] = {}], s, id,
                   "rejected", <<"Request timeout">>)
       ELSE S1

\* the timer callback set by sendRequest
requestTimeout(S, s, id) ==
  LET S1 == [S EXCEPT !.promise[s][id].timer = -1]
  IN IF id \in S1.pendingRequests[s]
       THEN settle([S1 EXCEPT !.pendingRequests[s] = @ \ {id}], s, id,
                   "rejected", <<"Request timeout">>)
       ELSE S1

\* one textDocument/didClose per tracked document, errors swallowed
RECURSIVE closeDocuments(_, _, _)
closeDocuments(S, s, uris) ==
  IF uris = <<>> THEN S
  ELSE LET S1 == sendNotification(S, s, "textDocument/didClose", Head(uris))
       IN closeDocuments([S1 EXCEPT !.err = ""], s, Tail(uris))

\* Variant of cleanup that also restarts the id counter.
cleanupResetsIds(S, s) ==
  LET S1 == [S EXCEPT !.initialized[s] = FALSE, !.pendingRequests[s] = {},
                      !.requestId[s] = 0]
      S2 == closeDocuments(S1, s, S1.openDocuments[s])
      S3 == [S2 EXCEPT !.openDocuments[s] = <<>>]
      S4 == IF S3.process[s] # 0
              THEN [S3 EXCEPT !.procs[S3.process[s]].killed = TRUE, !.process[s] = 0]
              ELSE S3
  IN [S4 EXCEPT !.disk = @ \ {<<s, S4.tempDir[s]>>}]

\* Variant of cleanup that kills the subprocess before it closes the documents.
cleanupKillsFirst(S, s) ==
  LET S1 == [S EXCEPT !.initialized[s] = FALSE, !.pendingRequests[s] = {}]
      S2 == IF S1.process[s] # 0
              THEN [S1 EXCEPT !.procs[S1.process[s]].killed = TRUE, !.process[s] = 0]
              ELSE S1
      S3 == closeDocuments(S2, s, S2.openDocuments[s])
      S4 == [S3 EXCEPT !.openDocuments[s] = <<>>]
  IN [S4 EXCEPT !.disk = @ \ {<<s, S4.tempDir[s]>>}]

\* cleanup, up to its await of rm(): everything before it runs without a
\* suspension.  rm() removes the directory this.tempDir names, if any.
cleanup(S, s) ==
  LET S1 == [S EXCEPT !.initialized[s] = FALSE, !.pendingRequests[s] = {}]
      S2 == closeDocuments(S1, s, S1.openDocuments[s])
      S3 == [S2 EXCEPT !.openDocuments[s] = <<>>]
      S4 == IF S3.process[s] # 0
              THEN [S3 EXCEPT !.procs[S3.process[s]].killed = TRUE, !.process[s] = 0]
              ELSE S3
  IN [S4 EXCEPT !.disk = @ \ {<<s, S4.tempDir[s]>>}]

\* ---------------------------------------------------------------------
\* Continuations: the code that runs when an awaited promise settles
\* ---------------------------------------------------------------------

\* TypeScriptWorkspaceManager: the code after `await client.shutdown()` in
\* closeWorkspace (delete the key) and after `await Promise.all` in closeAll
\* (clear the map); a direct shutdown() call just returns.
shutdownReturns(S, t) ==
  IF t.arg \in Keys
    THEN [S EXCEPT !.workspaces[t.arg] = 0, !.returned[t.arg] = {},
                   !.reused = @ \ {t.arg}]
  ELSE IF t.arg = AllKeys
    THEN IF S.closeAllWaiting > 1
           THEN [S EXCEPT !.closeAllWaiting = @ - 1]
           ELSE [S EXCEPT !.closeAllWaiting = -1,
                          !.workspaces = [k \in Keys |-> 0],
                          !.returned = [k \in Keys |-> {}],
                          !.reused = {}]
  ELSE S

\* shutdown(), from `await this.cleanup()` on: cleanup runs up to its await of
\* rm(); without a scratch directory it returns without suspending.
shutdownCleanup(S, t) ==
  LET S1 == cleanup(S, t.s)
  IN IF S1.tempDir[t.s] # 0
       THEN [S1 EXCEPT !.tasks = Insert(@, [t EXCEPT !.pc = "rm", !.id = 0,
                                                   !.dir = <<t.s, S1.tempDir[t.s]>>])]
       ELSE shutdownReturns(S1, t)

\* shutdown(), its synchronous start
shutdown(S, s, parent) ==
  LET t == Task("shutdown", s, parent, "request", 0, 0, <<>>, -1, -1)
  IN IF S.initialized[s]
       THEN LET S1 == sendRequest(S, s, "shutdown")
                id == S1.requestId[s]
            IN IF S1.promise[s][id].st = "pending"
                 THEN [S1 EXCEPT !.tasks = Insert(@, [t EXCEPT !.id = id])]
                 ELSE shutdownCleanup(S1, t)
       ELSE shutdownCleanup(S, t)

\* Variant of shutdown() whose catch block returns instead of falling
\* through to cleanup.
shutdownResumeOrReturn(S, t, ok) ==
  IF ok
    THEN LET S1 == sendNotification(S, t.s, "exit", "")
         IN shutdownCleanup([S1 EXCEPT !.err = ""], t)
    ELSE shutdownReturns(S, t)

\* shutdown(), after `await this.sendRequest('shutdown', null)` settled
shutdownResume(S, t, ok) ==
  IF ok
    THEN LET S1 == sendNotification(S, t.s, "exit", "")
         IN shutdownCleanup([S1 EXCEPT !.err = ""], t)
    ELSE shutdownCleanup(S, t)

\* ensureDocumentOpen without the has() test
ensureDocumentOpenAlways(S, s, uri) ==
  IF ~S.initialized[s]
    THEN [S EXCEPT !.docResult[s] = "TypeScript Language Server not initialized"]
  ELSE [S EXCEPT !.tasks = Insert(@, Task("ensureDocumentOpen", s, uri, "readFile",
                                          0, 0, <<>>, -1, -1))]

\* ensureDocumentOpen up to its first await: a tracked uri returns at once;
\* openDocument throws when the client is not initialized (the message has no
\* ENOENT in it, so ensureDocumentOpen rethrows it); otherwise readFile starts.
ensureDocumentOpen(S, s, uri) ==
  IF \E i \in 1..Len(S.openDocuments[s]) : S.openDocuments[s][i] = uri
    THEN [S EXCEPT !.docResult[s] = "already open"]
  ELSE IF ~S.initialized[s]
    THEN [S EXCEPT !.docResult[s] = "TypeScript Language Server not initialized"]
  ELSE [S EXCEPT !.tasks = Insert(@, Task("ensureDocumentOpen", s, uri, "readFile",
                                          0, 0, <<>>, -1, -1))]

AddDoc(seq, uri) ==
  IF \E i \in 1..Len(seq) : seq[i] = uri THEN seq ELSE Append(seq, uri)

\* The error openDocument throws once readFile has settled, as the parts of
\* `Failed to open document ${filePath}: ${error.message}` (<<>> = none):
\* the read error, or the throw of sendNotification.
openDocumentError(S, s, uri, outcome) ==
  IF outcome # "ok"
    THEN <<"Failed to open document", uri, outcome>>
  ELSE IF didOpen(S, s, uri, languageIdOf(uri), FileContent).err # ""
    THEN <<"Failed to open document", uri, didOpen(S, s, uri, languageIdOf(uri), FileContent).err>>
  ELSE <<>>

\* error.message.includes('ENOENT'): the message embeds the path
Includes(parts, word) ==
  \E i \in 1..Len(parts) : parts[i] = word \/ (ContainsENOENT(parts[i]) /\ word = "ENOENT")

ErrorMessage(parts) == parts[1] \o " " \o parts[2] \o ": " \o parts[3]

\* a catch block that rethrows every error
rethrow(S, s, uri) ==
  [S EXCEPT !.docResult[s] = ErrorMessage(<<"Failed to open document", uri, "ENOENT">>)]

\* the catch block of ensureDocumentOpen: a placeholder is opened
openPlaceholder(S, s, uri) ==
  LET S1 == didOpen(S, s, uri, "typescript", Placeholder)
  IN IF S1.err # ""
       THEN [S1 EXCEPT !.err = "", !.docResult[s] = S1.err]
       ELSE [S1 EXCEPT !.openDocuments[s] = AddDoc(@, uri), !.docResult[s] = "opened"]

\* ensureDocumentOpen / openDocument after readFile settled with outcome
\* "ok", "ENOENT" or another error code.
ensureDocumentOpenResume(S, t, outcome) ==
  LET e == openDocumentError(S, t.s, t.arg, outcome)
  IN IF e = <<>>
       THEN [didOpen(S, t.s, t.arg, languageIdOf(t.arg), FileContent) EXCEPT
               !.openDocuments[t.s] = AddDoc(@, t.arg), !.docResult[t.s] = "opened"]
     ELSE IF Includes(e, "ENOENT")
       THEN openPlaceholder(S, t.s, t.arg)
     ELSE [S EXCEPT !.docResult[t.s] = ErrorMessage(e)]

\* ---------------------------------------------------------------------
\* index.ts: the goto-typescript-definition tool
\* ---------------------------------------------------------------------
\* handleError: the tool result for an exception the handler caught
handleError(file, message) ==
  [file |-> file, text |-> message, location |-> <<>>, answer |-> <<>>,
   failed |-> TRUE, missing |-> FALSE, isError |-> TRUE]

\* the tool result the handler builds from the text gotoDefinition returned;
\* failed and missing record what happened inside the call
toolReturn(t, text, failed) ==
  [file |-> t.arg, text |-> text, location |-> <<>>, answer |-> <<>>,
   failed |-> failed, missing |-> t.missing, isError |-> FALSE]

\* a Location the server answers with is <<uri, line, character>> of its
\* range.start; formatLocation prints path:line+1:character+1, and
\* 'Unknown location' (<<>>) for a value without uri or range
formatLocation(location) ==
  IF Len(location) # 3 THEN <<>>
  ELSE <<location[1], location[2] + 1, location[3] + 1>>

\* the position gotoDefinition puts in its request for the arguments (line, character)
positionOf(line, character) == <<line - 1, character>>

\* errorMessage.includes('Debug Failure') || errorMessage.includes('False expression')
PositionErrors == {"Debug Failure", "False expression"}

\* the catch block of gotoDefinition: the error becomes the returned text
definitionCatch(S, t, message) ==
  [S EXCEPT !.toolResult =
     toolReturn(t, IF message \in PositionErrors
                     THEN "Definition not available at this position (position calculation error)"
                     ELSE "Definition error: " \o message,
                TRUE)]

\* gotoDefinition once the response to textDocument/definition has settled
definitionSettled(S, t) ==
  LET r == S.promise[t.s][t.id]
  IN IF r.st = "rejected" THEN definitionCatch(S, t, r.val[1])
     ELSE IF r.val = <<>>
       THEN [S EXCEPT !.toolResult =
               toolReturn(t, "No definition found at this position", FALSE)]
     ELSE [S EXCEPT !.toolResult =
             [toolReturn(t, IF formatLocation(r.val) = <<>>
                              THEN "Definition found at: Unknown location"
                              ELSE "Definition found at: " \o formatLocation(r.val)[1],
                         FALSE)
                EXCEPT !.location = formatLocation(r.val), !.answer = r.val]]

\* gotoDefinition after ensureDocumentOpen returned: the request is sent
definitionRequest(S, t) ==
  LET S1 == sendRequestAt(S, t.s, "textDocument/definition", t.arg, t.position)
      id == S1.requestId[t.s]
  IN IF S1.promise[t.s][id].st = "rejected"
       THEN definitionSettled(S1, [t EXCEPT !.id = id])
       ELSE [S1 EXCEPT !.tasks = Insert(@, [t EXCEPT !.pc = "request", !.id = id])]

\* gotoDefinition up to its first await
gotoDefinition(S, s, file, position) ==
  LET t == [Task("gotoDefinition", s, file, "readFile", 0, 0, <<>>, -1, -1)
              EXCEPT !.position = position]
      S1 == ensureDocumentOpen(S, s, file)
  IN IF S1.docResult[s] = "already open" THEN definitionRequest(S1, t)
     ELSE IF S1.docResult[s] # "" THEN definitionCatch(S1, t, S1.docResult[s])
     ELSE [S EXCEPT !.tasks = Insert(@, t)]

\* gotoDefinition after the readFile of its ensureDocumentOpen has settled
gotoDefinitionResume(S, t, outcome) ==
  LET S1 == ensureDocumentOpenResume(S, t, outcome)
      t1 == [t EXCEPT !.missing = (outcome = "ENOENT")]
  IN IF S1.docResult[t.s] = "opened" THEN definitionRequest(S1, t1)
     ELSE definitionCatch(S1, t1, S1.docResult[t.s])

\* the tool handler suspended in `await getWorkspaceClient(workspaceRoot)`
\* on the client s that getOrCreateWorkspace constructed (0 = none)
HandlerAwaiting(S, s) ==
  LET I == {i \in 1..Len(S.tasks) : /\ S.tasks[i].kind = "gotoDefinition"
                                    /\ S.tasks[i].pc = "getWorkspaceClient"
                                    /\ S.tasks[i].s = s}
  IN IF I = {} THEN 0 ELSE CHOOSE i \in I : TRUE

\* getWorkspaceClient settles: the handler goes on with gotoDefinition, or
\* its catch block hands the exception to handleError
handlerResume(S, s, reason) ==
  LET i == HandlerAwaiting(S, s)
  IN IF i = 0 THEN S
     ELSE LET S1 == [S EXCEPT !.tasks = Remove(@, i)]
          IN IF reason = "" THEN gotoDefinition(S1, s, S.tasks[i].arg, S.tasks[i].position)
             ELSE [S1 EXCEPT !.toolResult = handleError(S.tasks[i].arg, reason)]

\* Variant of a failing initialize() under a getOrCreateWorkspace that
\* registers the client before awaiting initialize().
initializeFailsRegistered(S, t, reason) ==
  IF t.arg \in Keys
    THEN [S EXCEPT !.initFailed = @ \cup {t.s}, !.initError[t.s] = reason,
                   !.workspaces[t.arg] = t.s]
    ELSE [S EXCEPT !.initFailed = @ \cup {t.s}, !.initError[t.s] = reason]

\* initialize() failed: the exception reaches the caller; getOrCreateWorkspace
\* rethrows it before `this.workspaces.set`
initializeFails(S, t, reason) ==
  handlerResume([S EXCEPT !.initFailed = @ \cup {t.s}, !.initError[t.s] = reason],
                t.s, reason)

\* the messages of the errors a failed spawn emits, and the error the
\* 'error' handler of initialize() makes of one
SpawnCauses == {"spawn typescript-language-server ENOENT", "spawn EACCES"}
SpawnFailed(cause) == "Failed to start TypeScript Language Server: " \o cause

StartupTimedOut == "TypeScript Language Server startup timeout"
InitTimedOut == "LSP initialize request timeout"

\* Variant of the 'error' handler whose reject also fails an initialize()
\* that is past its startup.
errorHandlerAlways(S, p, cause) ==
  LET W == {i \in 1..Len(S.tasks) : /\ S.tasks[i].kind = "initialize"
                                    /\ S.tasks[i].pc \in {"startup", "handshake"}
                                    /\ S.tasks[i].p = p}
  IN IF W = {} THEN S
     ELSE LET i == CHOOSE x \in W : TRUE
          IN initializeFails([S EXCEPT !.tasks = Remove(@, i)], S.tasks[i], SpawnFailed(cause))

\* the 'error' handler of startupPromise: clearTimeout and reject, which
\* fails the initialize() that awaits the startup of p and does nothing once
\* startupPromise is settled
errorHandler(S, p, cause) ==
  LET W == {i \in 1..Len(S.tasks) : /\ S.tasks[i].kind = "initialize"
                                    /\ S.tasks[i].pc = "startup"
                                    /\ S.tasks[i].p = p}
  IN IF W = {} THEN S
     ELSE LET i == CHOOSE x \in W : TRUE
          IN initializeFails([S EXCEPT !.tasks = Remove(@, i)], S.tasks[i], SpawnFailed(cause))

\* initialize(), after the initialize request resolved: the initialized
\* notification, the flag, and in getOrCreateWorkspace the registration
initializeResume(S, t) ==
  LET S1 == sendNotification(S, t.s, "initialized", "")
  IN IF S1.err # ""
       THEN initializeFails([S1 EXCEPT !.err = ""], t, S1.err)
       ELSE LET S2 == [S1 EXCEPT !.initialized[t.s] = TRUE,
                                 !.initOk = @ \cup {t.s}]
            IN IF t.arg \in Keys
                 THEN handlerResume([S2 EXCEPT !.workspaces[t.arg] = t.s,
                                               !.returned[t.arg] = @ \cup {t.s},
                                               !.exposed = @ \cup {t.s}],
                                    t.s, "")
                 ELSE S2

\* the task awaiting the promise of request id of Session s (0 = a caller outside the model)
Awaiter(S, s, id) ==
  LET I == {i \in 1..Len(S.tasks) : /\ S.tasks[i].s = s
                                    /\ S.tasks[i].id = id
                                    /\ S.tasks[i].pc \in {"handshake", "request"}}
  IN IF I = {} THEN 0 ELSE CHOOSE i \in I : TRUE

\* run the continuation of whoever awaits request id, after it settled
resume(S, s, id) ==
  LET i == Awaiter(S, s, id)
  IN IF i = 0 \/ S.promise[s][id].st = "pending" THEN S
     ELSE LET t == S.tasks[i]
              S1 == [S EXCEPT !.tasks = Remove(@, i)]
              ok == S.promise[s][id].st = "resolved"
          IN IF t.kind = "initialize"
               THEN IF ok THEN initializeResume(S1, t)
                          ELSE initializeFails(S1, t, "initialize request rejected")
             ELSE IF t.kind = "gotoDefinition" THEN definitionSettled(S1, t)
             ELSE shutdownResume(S1, t, ok)

\* initialize() without the test of `initialized`
initializeAgain(S, s, arg) ==
  LET n == S.tempDir[s] + 1
  IN [S EXCEPT !.tempDir[s] = n,
               !.tasks = Insert(@, Task("initialize", s, arg, "mkdir", 0, 0,
                                        <<s, n>>, -1, -1))]

\* initialize(), its synchronous start: returns at once on an Initialized
\* Session, else names the scratch directory and awaits mkdir
initialize(S, s, arg) ==
  IF S.initialized[s]
    THEN S
    ELSE LET n == S.tempDir[s] + 1
         IN [S EXCEPT !.tempDir[s] = n,
                      !.tasks = Insert(@, Task("initialize", s, arg, "mkdir", 0, 0,
                                               <<s, n>>, -1, -1))]

\* Variant of initializeHandshake without the handshake timer.
initializeHandshakeUntimed(S, t) ==
  IF S.process[t.s] = 0
    THEN initializeFails(S, t, "TypeError: this.process is null")
    ELSE LET q == S.process[t.s]
             S1 == [S EXCEPT !.procs[q].dataH = TRUE, !.procs[q].exitH = TRUE]
             S2 == sendRequest(S1, t.s, "initialize")
         IN [S2 EXCEPT !.tasks = Insert(@, [t EXCEPT !.pc = "handshake",
                                                     !.id = S2.requestId[t.s],
                                                     !.t1 = -1,
                                                     !.t2 = -1])]

\* initialize(), after `await startupPromise`: wires the stream and exit
\* handlers on this.process, arms the handshake timer, sends the initialize request
initializeHandshake(S, t) ==
  IF S.process[t.s] = 0
    THEN initializeFails(S, t, "TypeError: this.process is null")
    ELSE LET q == S.process[t.s]
             S1 == [S EXCEPT !.procs[q].dataH = TRUE, !.procs[q].exitH = TRUE]
             S2 == sendRequest(S1, t.s, "initialize")
         IN [S2 EXCEPT !.tasks = Insert(@, [t EXCEPT !.pc = "handshake",
                                                     !.id = S2.requestId[t.s],
                                                     !.t1 = -1,
                                                     !.t2 = InitTimeoutMs])]

\* getOrCreateWorkspace
getOrCreateWorkspace(S, k) ==
  IF S.workspaces[k] # 0
    THEN [S EXCEPT !.returned[k] = @ \cup {S.workspaces[k]},
                   !.exposed = @ \cup {S.workspaces[k]},
                   !.reused = @ \cup {k}]
    ELSE LET s == S.nSessions + 1
         IN initialize([S EXCEPT !.nSessions = s, !.path[s] = k], s, k)

\* closeWorkspace
closeWorkspace(S, k) ==
  IF S.workspaces[k] # 0
    THEN shutdown(S, S.workspaces[k], k)
    ELSE S

RECURSIVE shutdownEach(_, _)
shutdownEach(S, clients) ==
  IF clients = {} THEN S
  ELSE LET s == CHOOSE x \in clients : \A y \in clients : x <= y
       IN shutdownEach(shutdown(S, s, AllKeys), clients \ {s})

\* closeAll
closeAll(S) ==
  LET clients == {S.workspaces[k] : k \in Keys} \ {0}
  IN IF clients = {}
       THEN [S EXCEPT !.workspaces = [k \in Keys |-> 0],
                      !.returned = [k \in Keys |-> {}],
                      !.reused = {}]
       ELSE shutdownEach([S EXCEPT !.closeAllWaiting = Cardinality(clients),
                                   !.closeAllSnapshot = clients], clients)

\* getWorkspaceClient: the registry key is the workspace root plus the tag
getWorkspaceClient(S, workspaceRoot) ==
  getOrCreateWorkspace(S, workspaceRoot \o IsolationTag)

\* the handler of goto-typescript-definition up to its first await: the
\* registered client is returned at once and gotoDefinition starts;
\* otherwise the handler waits for the initialize() of the new client
gotoDefinitionTool(S, workspaceRoot, file, line, character) ==
  LET S1 == getWorkspaceClient(S, workspaceRoot)
      s == S.workspaces[workspaceRoot \o IsolationTag]
  IN IF s # 0 THEN gotoDefinition(S1, s, file, positionOf(line, character))
     ELSE [S1 EXCEPT !.tasks =
             Insert(@, [Task("gotoDefinition", S1.nSessions, file,
                             "getWorkspaceClient", 0, 0, <<>>, -1, -1)
                          EXCEPT !.position = positionOf(line, character)])]

\* ---------------------------------------------------------------------
\* Initial state and actions
\* ---------------------------------------------------------------------
\* the result the subprocess computes for the request with a given id
ResultOf(id) == <<"result", id>>

\* no stdout stream is observed
NoStream ==
  /\ buffer = <<>>
  /\ wire = <<>>
  /\ delivered = 0
  /\ emitted = <<>>
  /\ frame = <<>>

\* every field as its declaration initialises it
FreshClients ==
  /\ workspaces = [k \in Keys |-> 0]
  /\ process = [s \in Sess |-> 0]
  /\ requestId = [s \in Sess |-> 0]
  /\ pendingRequests = [s \in Sess |-> {}]
  /\ initialized = [s \in Sess |-> FALSE]
  /\ openDocuments = [s \in Sess |-> <<>>]
  /\ tempDir = [s \in Sess |-> 0]
  /\ promise = [s \in Sess |-> [i \in Ids |-> Unused]]
  /\ procs = [p \in Proc |-> NoProc]
  /\ stdin = [p \in Proc |-> <<>>]
  /\ tasks = <<>>
  /\ disk = {}
  /\ closeAllWaiting = -1
  /\ closeAllSnapshot = {}
  /\ issued = [s \in Sess |-> <<>>]
  /\ inbox = [p \in Proc |-> {}]
  /\ returned = [k \in Keys |-> {}]
  /\ reused = {}
  /\ initFailed = {}
  /\ initOk = {}
  /\ toolRequests = 0
  /\ docResult = [s \in Sess |-> ""]
  /\ initError = [s \in Sess |-> ""]
  /\ toolResult = NoResult
  /\ shutdownCalled = {}
  /\ listeners = [s \in Sess |-> {}]
  /\ dispatched = <<>>

Fresh == FreshClients /\ NoStream

\* after `new TypeScriptWorkspaceManager()`: no client exists yet
Init ==
  /\ Fresh
  /\ nSessions = 0
  /\ path = [s \in Sess |-> ""]
  /\ exposed = {}

\* after `new TypeScriptLSPClient(path)`, as in the tests
SessionInit ==
  /\ Fresh
  /\ nSessions = 1
  /\ path = [s \in Sess |-> IF s = 1 THEN "/a" ELSE ""]
  /\ exposed = {1}

FreeProcs == {p \in Proc : procs[p].st = "unused"}
Starting == {i \in 1..Len(tasks) : tasks[i].kind = "initialize" /\ tasks[i].pc = "mkdir"}
CanStartTask(n) == Len(tasks) + n <= MaxTasks
CanInitialize == CanStartTask(1) /\ Cardinality(FreeProcs) > Cardinality(Starting)

\* no call on client s is suspended: its caller has awaited them all
Idle(s) == \A i \in 1..Len(tasks) : tasks[i].s # s

\* a caller that awaits its calls calls client.initialize()
InitializeCall(s) ==
  /\ s \in exposed
  /\ Idle(s)
  /\ initialized[s] \/ CanInitialize
  /\ Commit(initialize(Cur, s, NoKey))

\* a caller that awaits its calls calls client.shutdown()
ShutdownCall(s) ==
  /\ s \in exposed
  /\ Idle(s)
  /\ CanStartTask(1)
  /\ initialized[s] => requestId[s] < MaxRequestId
  /\ Commit(shutdown(Cur, s, NoKey))

\* a caller calls manager.getOrCreateWorkspace(k)
GetOrCreateWorkspace(k) ==
  /\ workspaces[k] = 0 => nSessions < NSess /\ CanInitialize
  /\ Commit(getOrCreateWorkspace(Cur, k))

\* a caller calls manager.closeWorkspace(k)
CloseWorkspace(k) ==
  /\ CanStartTask(1)
  /\ workspaces[k] # 0 /\ initialized[workspaces[k]] => requestId[workspaces[k]] < MaxRequestId
  /\ Commit(closeWorkspace(Cur, k))

\* a caller (the SIGINT / SIGTERM handler) calls manager.closeAll()
CloseAll ==
  /\ closeAllWaiting = -1
  /\ CanStartTask(Cardinality({workspaces[k] : k \in Keys} \ {0}))
  /\ \A k \in Keys : workspaces[k] # 0 /\ initialized[workspaces[k]]
                       => requestId[workspaces[k]] < MaxRequestId
  /\ Commit(closeAll(Cur))

\* a caller holding a client sends a request
UserRequest(s) ==
  /\ s \in exposed
  /\ requestId[s] < MaxRequestId
  /\ Commit(sendRequest(Cur, s, "user"))

\* a tool handler of index.ts sends a request on a client it got from the registry
ToolRequest(s) ==
  /\ s \in exposed
  /\ toolRequests < MaxToolRequests
  /\ requestId[s] < MaxRequestId
  /\ Commit(sendRequest([Cur EXCEPT !.toolRequests = @ + 1], s, "user"))

\* a caller holding a client calls ensureDocumentOpen
EnsureDocumentOpen(s, uri) ==
  /\ s \in exposed
  /\ CanStartTask(1)
  /\ Commit(ensureDocumentOpen(Cur, s, uri))

\* readFile settles
ReadFileDone(i, outcome) ==
  /\ i \in 1..Len(tasks)
  /\ tasks[i].pc = "readFile"
  /\ tasks[i].kind = "gotoDefinition" => requestId[tasks[i].s] < MaxRequestId
  /\ LET S1 == [Cur EXCEPT !.tasks = Remove(@, i)]
     IN IF tasks[i].kind = "gotoDefinition"
          THEN Commit(gotoDefinitionResume(S1, tasks[i], outcome))
          ELSE Commit(ensureDocumentOpenResume(S1, tasks[i], outcome))

\* mkdir settles: initialize() spawns the subprocess and awaits its startup
MkdirDone(i) ==
  /\ i \in 1..Len(tasks)
  /\ tasks[i].kind = "initialize" /\ tasks[i].pc = "mkdir"
  /\ FreeProcs # {}
  /\ LET t == tasks[i]
         p == CHOOSE x \in FreeProcs : \A y \in FreeProcs : x <= y
     IN Commit([Cur EXCEPT !.disk = @ \cup {t.dir},
                           !.process[t.s] = p,
                           !.procs[p] = [NoProc EXCEPT !.st = "spawning", !.owner = t.s],
                           !.tasks = Insert(Remove(@, i),
                                            [t EXCEPT !.pc = "startup", !.p = p,
                                                      !.t1 = StartupTimeoutMs])])

StartupWaiter(p) ==
  {i \in 1..Len(tasks) : tasks[i].kind = "initialize" /\ tasks[i].pc = "startup"
                          /\ tasks[i].p = p}

\* the subprocess emits 'spawn'
ProcSpawn(p) ==
  /\ procs[p].st = "spawning"
  /\ LET S1 == [Cur EXCEPT !.procs[p].st = "running"]
     IN IF StartupWaiter(p) = {}
          THEN Commit(S1)
          ELSE LET i == CHOOSE x \in StartupWaiter(p) : TRUE
               IN /\ process[tasks[i].s] # 0 => requestId[tasks[i].s] < MaxRequestId
                  /\ Commit(initializeHandshake([S1 EXCEPT !.tasks = Remove(@, i)], tasks[i]))

\* the subprocess emits 'error' instead of 'spawn'
ProcError(p) ==
  /\ procs[p].st = "spawning"
  /\ \E cause \in SpawnCauses :
       Commit(errorHandler([Cur EXCEPT !.procs[p].st = "failed"], p, cause))

\* the subprocess emits 'error' after 'spawn' (it could not be killed or signalled)
ProcLateError(p) ==
  /\ procs[p].st = "running"
  /\ \E cause \in SpawnCauses : Commit(errorHandler(Cur, p, cause))

\* the 5 s startup timer fires before 'spawn'
StartupTimeout(i) ==
  /\ i \in 1..Len(tasks)
  /\ tasks[i].kind = "initialize" /\ tasks[i].pc = "startup" /\ tasks[i].t1 = 0
  /\ Commit(initializeFails([Cur EXCEPT !.tasks = Remove(@, i)], tasks[i],
                            StartupTimedOut))

\* the 10 s handshake timer fires while initialize() awaits the race
InitTimeout(i) ==
  /\ i \in 1..Len(tasks)
  /\ tasks[i].kind = "initialize" /\ tasks[i].pc = "handshake" /\ tasks[i].t2 = 0
  /\ Commit(initializeFails([Cur EXCEPT !.tasks = Remove(@, i)], tasks[i],
                            InitTimedOut))

\* the subprocess answers a request it was sent; the stdout data handler
\* passes the frame to handleMessage
Response(p, id, isError, val) ==
  /\ procs[p].st = "running" /\ procs[p].dataH
  /\ id \in inbox[p]
  /\ LET s == procs[p].owner
         S1 == [Cur EXCEPT !.inbox[p] = @ \ {id}]
     IN Commit(resume(handleMessage(S1, s, id, isError, val), s, id))

\* the subprocess writes a response that answers nothing it was sent: the id
\* was never issued, or the request was answered before
UnknownResponse(p, id, isError) ==
  /\ procs[p].st = "running" /\ procs[p].dataH /\ ~procs[p].killed
  /\ id \notin inbox[p]
  /\ id \notin pendingRequests[procs[p].owner]
  /\ LET s == procs[p].owner
     IN Commit(resume(handleMessage(Cur, s, id, isError,
                                    IF isError THEN <<"error", id>> ELSE ResultOf(id)),
                      s, id))

\* the timer set by sendRequest fires
RequestTimeout(s, id) ==
  /\ promise[s][id].timer = 0
  /\ Commit(resume(requestTimeout(Cur, s, id), s, id))

\* the subprocess exits (on its own or after kill()); the exit handler runs cleanup
ProcExit(p) ==
  /\ procs[p].st = "running"
  /\ LET s == procs[p].owner
         S1 == [Cur EXCEPT !.procs[p].st = "exited"]
     IN IF procs[p].exitH THEN Commit(cleanup(S1, s)) ELSE Commit(S1)

\* rm() of a shutdown's cleanup settles: shutdown() returns
RmDone(i) ==
  /\ i \in 1..Len(tasks)
  /\ tasks[i].kind = "shutdown" /\ tasks[i].pc = "rm"
  /\ Commit(shutdownReturns([Cur EXCEPT !.tasks = Remove(@, i)], tasks[i]))

\* ---- time: every timer counts down; a timer may fire once it shows 0 ----
Remaining ==
  {promise[s][i].timer : s \in Sess, i \in Ids}
    \cup {tasks[i].t1 : i \in 1..Len(tasks)} \cup {tasks[i].t2 : i \in 1..Len(tasks)}

Armed == {r \in Remaining : r > 0}

Elapse(r, d) == IF r > 0 THEN r - d ELSE r

\* time passes until the next timer is due
AdvanceTime ==
  /\ Armed # {}
  /\ LET d == CHOOSE x \in Armed : \A y \in Armed : x <= y
     IN Commit([Cur EXCEPT
          !.promise = [s \in Sess |-> [i \in Ids |->
             [promise[s][i] EXCEPT
                !.timer = Elapse(@, d),
                !.age = IF promise[s][i].st = "pending"
                          THEN Min(@ + d, RequestTimeoutMs) ELSE @]]],
          !.tasks = [i \in 1..Len(tasks) |->
             [tasks[i] EXCEPT !.t1 = Elapse(@, d), !.t2 = Elapse(@, d)]]])

\* what the subprocess and the operating system do
Environment ==
  \/ \E i \in 1..MaxTasks : MkdirDone(i)
  \/ \E p \in Proc : ProcSpawn(p)
  \/ \E p \in Proc : ProcError(p)
  \/ \E i \in 1..MaxTasks : StartupTimeout(i)
  \/ \E i \in 1..MaxTasks : InitTimeout(i)
  \/ \E p \in Proc, id \in Ids : Response(p, id, FALSE, ResultOf(id))
  \/ \E p \in Proc, id \in Ids : Response(p, id, TRUE, <<"error", id>>)
  \/ \E s \in Sess, id \in Ids : RequestTimeout(s, id)
  \/ \E p \in Proc : ProcExit(p)
  \/ \E i \in 1..MaxTasks : RmDone(i)
  \/ AdvanceTime

\* a caller opens a document; the file system answers the read
Documents ==
  \/ \E s \in Sess, uri \in Paths : EnsureDocumentOpen(s, uri)
  \/ \E i \in 1..MaxTasks, o \in {"ok", "ENOENT", "EACCES"} : ReadFileDone(i, o)

\* the registry and its callers
Next ==
  \/ \E k \in Keys : GetOrCreateWorkspace(k)
  \/ \E k \in Keys : CloseWorkspace(k)
  \/ CloseAll
  \/ Environment

Spec == Init /\ [][Next]_vars

\* The server at work: getOrCreateWorkspace has completed for both keys, both
\* clients are registered and initialized and their handshakes are over.
ServingInit ==
  /\ workspaces = [k \in Keys |-> IF k = "/a" THEN 1 ELSE 2]
  /\ nSessions = 2
  /\ path = [s \in Sess |-> IF s = 1 THEN "/a" ELSE IF s = 2 THEN "/a#typescript-lsp" ELSE ""]
  /\ exposed = {1, 2}
  /\ returned = [k \in Keys |-> IF k = "/a" THEN {1} ELSE {2}]
  /\ process = [s \in Sess |-> IF s <= 2 THEN s ELSE 0]
  /\ requestId = [s \in Sess |-> IF s <= 2 THEN 1 ELSE 0]
  /\ pendingRequests = [s \in Sess |-> {}]
  /\ initialized = [s \in Sess |-> s <= 2]
  /\ openDocuments = [s \in Sess |-> <<>>]
  /\ tempDir = [s \in Sess |-> IF s <= 2 THEN 1 ELSE 0]
  /\ promise = [s \in Sess |-> [i \in Ids |->
        IF s <= 2 /\ i = 1
          THEN [st |-> "resolved", val |-> ResultOf(1), method |-> "initialize",
                timer |-> -1, age |-> 0, calls |-> 1]
          ELSE Unused]]
  /\ procs = [p \in Proc |->
        IF p <= 2 THEN [st |-> "running", owner |-> p, killed |-> FALSE,
                        dataH |-> TRUE, exitH |-> TRUE]
        ELSE NoProc]
  /\ stdin = [p \in Proc |->
        IF p <= 2 THEN <<Msg("initialize", 1, ""), Msg("initialized", 0, "")>> ELSE <<>>]
  /\ tasks = <<>>
  /\ disk = {<<1, 1>>, <<2, 1>>}
  /\ closeAllWaiting = -1
  /\ closeAllSnapshot = {}
  /\ issued = [s \in Sess |-> IF s <= 2 THEN <<1>> ELSE <<>>]
  /\ inbox = [p \in Proc |-> {}]
  /\ reused = {}
  /\ initFailed = {}
  /\ initOk = {1, 2}
  /\ toolRequests = 0
  /\ docResult = [s \in Sess |-> ""]
  /\ initError = [s \in Sess |-> ""]
  /\ toolResult = NoResult
  /\ shutdownCalled = {}
  /\ listeners = [s \in Sess |-> {}]
  /\ dispatched = <<>>
  /\ NoStream

\* the tool handlers of index.ts at work while the server is torn down
TeardownNext ==
  \/ CloseAll
  \/ \E s \in Sess : ToolRequest(s)
  \/ \E s \in Sess, uri \in Docs : EnsureDocumentOpen(s, uri)
  \/ \E i \in 1..MaxTasks : ReadFileDone(i, "ok")
  \/ \E p \in Proc, id \in Ids : Response(p, id, FALSE, ResultOf(id))
  \/ \E p \in Proc, id \in Ids : Response(p, id, TRUE, <<"error", id>>)
  \/ \E s \in Sess, id \in Ids : RequestTimeout(s, id)
  \/ \E p \in Proc : ProcExit(p)
  \/ \E i \in 1..MaxTasks : RmDone(i)
  \/ AdvanceTime

TeardownSpec == ServingInit /\ [][TeardownNext]_vars

\* clients constructed and driven directly, as the tests do
SessionNext ==
  \/ \E s \in Sess : InitializeCall(s)
  \/ \E s \in Sess : ShutdownCall(s)
  \/ \E s \in Sess : UserRequest(s)
  \/ Environment
  \/ \E p \in Proc, id \in Ids, isError \in BOOLEAN : UnknownResponse(p, id, isError)

SessionSpec == SessionInit /\ [][SessionNext]_vars

TypeOK ==
  /\ \A s \in Sess : process[s] \in 0..MaxProc /\ requestId[s] \in 0..MaxRequestId
  /\ Len(tasks) <= MaxTasks

\* A client at work: initialize() has completed on the client the tests
\* construct, its handshake is over and no document is open.
InitializedInit ==
  /\ workspaces = [k \in Keys |-> 0]
  /\ nSessions = 1
  /\ path = [s \in Sess |-> IF s = 1 THEN "/a" ELSE ""]
  /\ exposed = {1}
  /\ returned = [k \in Keys |-> {}]
  /\ process = [s \in Sess |-> IF s = 1 THEN 1 ELSE 0]
  /\ requestId = [s \in Sess |-> IF s = 1 THEN 1 ELSE 0]
  /\ pendingRequests = [s \in Sess |-> {}]
  /\ initialized = [s \in Sess |-> s = 1]
  /\ openDocuments = [s \in Sess |-> <<>>]
  /\ tempDir = [s \in Sess |-> IF s = 1 THEN 1 ELSE 0]
  /\ promise = [s \in Sess |-> [i \in Ids |->
        IF s = 1 /\ i = 1
          THEN [st |-> "resolved", val |-> ResultOf(1), method |-> "initialize",
                timer |-> -1, age |-> 0, calls |-> 1]
          ELSE Unused]]
  /\ procs = [p \in Proc |->
        IF p = 1 THEN [st |-> "running", owner |-> 1, killed |-> FALSE,
                       dataH |-> TRUE, exitH |-> TRUE]
        ELSE NoProc]
  /\ stdin = [p \in Proc |->
        IF p = 1 THEN <<Msg("initialize", 1, ""), Msg("initialized", 0, "")>> ELSE <<>>]
  /\ tasks = <<>>
  /\ disk = {<<1, 1>>}
  /\ closeAllWaiting = -1
  /\ closeAllSnapshot = {}
  /\ issued = [s \in Sess |-> IF s = 1 THEN <<1>> ELSE <<>>]
  /\ inbox = [p \in Proc |-> {}]
  /\ reused = {}
  /\ initFailed = {}
  /\ initOk = {1}
  /\ toolRequests = 0
  /\ docResult = [s \in Sess |-> ""]
  /\ initError = [s \in Sess |-> ""]
  /\ toolResult = NoResult
  /\ shutdownCalled = {}
  /\ listeners = [s \in Sess |-> {}]
  /\ dispatched = <<>>
  /\ NoStream

\* callers open documents on the client; the client may be shut down and
\* its subprocess may exit meanwhile
DocumentNext ==
  \/ Documents
  \/ \E s \in Sess : ShutdownCall(s)
  \/ \E p \in Proc, id \in Ids : Response(p, id, FALSE, ResultOf(id))
  \/ \E s \in Sess, id \in Ids : RequestTimeout(s, id)
  \/ \E p \in Proc : ProcExit(p)
  \/ \E i \in 1..MaxTasks : RmDone(i)
  \/ AdvanceTime

DocumentSpec == InitializedInit /\ [][DocumentNext]_vars

\* A caller that does not await its calls: initialize() and shutdown() are
\* called on a client whatever calls on it are still suspended.
InitializeUnawaited(s) ==
  /\ s \in exposed
  /\ initialized[s] \/ CanInitialize
  /\ Commit([initialize(Cur, s, NoKey) EXCEPT !.shutdownCalled = @ \ {s}])

ShutdownUnawaited(s) ==
  /\ s \in exposed
  /\ CanStartTask(1)
  /\ initialized[s] => requestId[s] < MaxRequestId
  /\ Commit([shutdown(Cur, s, NoKey) EXCEPT !.shutdownCalled = @ \cup {s}])

OverlapNext ==
  \/ \E s \in Sess : InitializeUnawaited(s)
  \/ \E s \in Sess : ShutdownUnawaited(s)
  \/ Environment

\* one client, as the tests construct it, under such a caller
OverlapSpec == SessionInit /\ [][OverlapNext]_vars

\* One client whose caller awaits each call, with every event the startup of
\* its subprocess can meet.
StartupNext ==
  \/ \E s \in Sess : InitializeCall(s)
  \/ \E s \in Sess : ShutdownCall(s)
  \/ \E p \in Proc : ProcLateError(p)
  \/ Environment

StartupSpec == SessionInit /\ [][StartupNext]_vars

\* what the event loop does for an initialize() on its own: mkdir settles,
\* time passes, a timer of initialize() that is due fires
EventLoop ==
  \/ \E i \in 1..MaxTasks : MkdirDone(i)
  \/ \E i \in 1..MaxTasks : StartupTimeout(i)
  \/ \E i \in 1..MaxTasks : InitTimeout(i)
  \/ AdvanceTime

\* The same client under fair scheduling: the event loop does not stop while
\* it has something to run.  Nothing is assumed of the subprocess.
StartupFairSpec == StartupSpec /\ WF_vars(EventLoop)

\* The MCP client calls the goto-typescript-definition tool with workspace
\* root "/a" and awaits each result before its next call.
GotoDefinitionTool(file, line, character) ==
  /\ \A i \in 1..Len(tasks) : tasks[i].kind # "gotoDefinition"
  /\ LET s == workspaces["/a" \o IsolationTag]
     IN IF s # 0
          THEN CanStartTask(1) /\ requestId[s] < MaxRequestId
          ELSE CanStartTask(2) /\ nSessions < NSess /\ CanInitialize
  /\ Commit(gotoDefinitionTool(Cur, "/a", file, line, character))

\* the server under the tool: clients start, answer, fail and exit; a
\* definition request is answered with locations, with null or with an error
ToolNext ==
  \/ \E file \in Paths : GotoDefinitionTool(file, 1, 0)
  \/ \E i \in 1..MaxTasks, o \in {"ok", "ENOENT", "EACCES"} : ReadFileDone(i, o)
  \/ \E i \in 1..MaxTasks : MkdirDone(i)
  \/ \E p \in Proc : ProcSpawn(p)
  \/ \E p \in Proc : ProcError(p)
  \/ \E i \in 1..MaxTasks : StartupTimeout(i)
  \/ \E i \in 1..MaxTasks : InitTimeout(i)
  \/ \E p \in Proc, id \in Ids : Response(p, id, FALSE, ResultOf(id))
  \/ \E p \in Proc, id \in Ids : Response(p, id, FALSE, <<>>)
  \/ \E p \in Proc, id \in Ids : Response(p, id, TRUE, <<"error", id>>)
  \/ \E p \in Proc, id \in Ids : Response(p, id, TRUE, <<"Debug Failure">>)
  \/ \E s \in Sess, id \in Ids : RequestTimeout(s, id)
  \/ \E p \in Proc : ProcExit(p)
  \/ AdvanceTime

ToolSpec == Init /\ [][ToolNext]_vars

\* ---------------------------------------------------------------------
\* The Framer: sendMessage's framing and the stdout data handler
\* ---------------------------------------------------------------------
\* A string is a sequence of characters (UTF-16 units), a Buffer a sequence of
\* bytes.  An ASCII character and its byte are written alike; "U+00E9" is the
\* character e-acute, whose UTF-8 encoding is the two bytes C3 A9; "U+FFFD"
\* is the replacement character a decoder puts for bytes it cannot decode.
MaxTextLen == 2     \* characters of the text a framed message carries
MaxCuts == 2        \* places where the stream splits a frame into chunks

TextChars == {"a", "U+00E9"}
DigitChars == <<"0", "1", "2", "3", "4", "5", "6", "7", "8", "9">>
IsDigit(c) == \E d \in 1..10 : DigitChars[d] = c
DigitValue(c) == (CHOOSE d \in 1..10 : DigitChars[d] = c) - 1

\* the bytes of one character in UTF-8
Utf8(c) ==
  IF c = "U+00E9" THEN <<"C3", "A9">>
  ELSE IF c = "U+FFFD" THEN <<"EF", "BF", "BD">>
  ELSE <<c>>

\* Buffer.from(str, 'utf-8')
RECURSIVE Encode(_)
Encode(str) == IF str = <<>> THEN <<>> ELSE Utf8(Head(str)) \o Encode(Tail(str))

\* Buffer.byteLength(str)
ByteLength(str) == Len(Encode(str))

\* Buffer.toString(): UTF-8 decoding of one chunk on its own; a byte sequence
\* that is cut off or has no lead byte decodes to replacement characters.
\* A byte is taken by the lead byte before it when the two or three of them
\* form a character; every other byte begins a character of the result.
Decode(bytes) ==
  LET n == Len(bytes)
      Taken(i) ==
        \/ bytes[i] = "A9" /\ i > 1 /\ bytes[i - 1] = "C3"
        \/ bytes[i] = "BF" /\ i > 1 /\ i < n /\ bytes[i - 1] = "EF" /\ bytes[i + 1] = "BD"
        \/ bytes[i] = "BD" /\ i > 2 /\ bytes[i - 2] = "EF" /\ bytes[i - 1] = "BF"
      Begins == {i \in 1..n : ~Taken(i)}
      CharAt(i) ==
        IF bytes[i] = "C3"
          THEN IF i < n /\ bytes[i + 1] = "A9" THEN "U+00E9" ELSE "U+FFFD"
        ELSE IF bytes[i] \in {"EF", "A9", "BF", "BD"} THEN "U+FFFD"
        ELSE bytes[i]
  IN [k \in 1..Cardinality(Begins) |->
        CharAt(CHOOSE i \in Begins : Cardinality({j \in Begins : j <= i}) = k)]

\* String(n) for 0 <= n
RECURSIVE ToDigits(_)
ToDigits(n) ==
  IF n < 10 THEN <<DigitChars[n + 1]>>
  ELSE ToDigits(n \div 10) \o <<DigitChars[(n % 10) + 1]>>

\* parseInt(digits, 10)
RECURSIVE parseInt(_)
parseInt(digits) ==
  IF digits = <<>> THEN 0
  ELSE 10 * parseInt(SubSeq(digits, 1, Len(digits) - 1)) + DigitValue(digits[Len(digits)])

\* str.slice(from, to) with 0-based bounds clamped to the string, as JavaScript does
Slice(str, from, to) == SubSeq(str, Min(from, Len(str)) + 1, Min(to, Len(str)))

StartsWithAt(str, i, lit) ==
  /\ i + Len(lit) - 1 <= Len(str)
  /\ \A j \in 1..Len(lit) : str[i + j - 1] = lit[j]

\* a response {"id":N,"result":"TEXT"} and JSON.stringify of it
JsonHead == <<"{", "\"", "i", "d", "\"", ":">>
JsonMid == <<",", "\"", "r", "e", "s", "u", "l", "t", "\"", ":", "\"">>
JsonTail == <<"\"", "}">>
Stringify(m) == JsonHead \o ToDigits(m.id) \o JsonMid \o m.result \o JsonTail

\* JSON.parse on the strings a response can be: the message, or <<>> for a SyntaxError
Parse(str) ==
  LET n == Len(str)
      from == Len(JsonHead) + 1 + Len(JsonMid)
  IN IF /\ n >= from + Len(JsonTail)
        /\ StartsWithAt(str, 1, JsonHead)
        /\ IsDigit(str[Len(JsonHead) + 1])
        /\ StartsWithAt(str, Len(JsonHead) + 2, JsonMid)
        /\ StartsWithAt(str, n - 1, JsonTail)
        /\ \A j \in (from + 1)..(n - 2) : str[j] # "\""
       THEN <<[id |-> DigitValue(str[Len(JsonHead) + 1]),
               result |-> SubSeq(str, from + 1, n - 2)]>>
       ELSE <<>>

HeaderName == <<"C", "o", "n", "t", "e", "n", "t", "-", "L", "e", "n", "g", "t", "h", ":", " ">>
HeaderEnd == <<"\r", "\n", "\r", "\n">>

\* sendMessage: the bytes written for message m
FullMessage(m) ==
  Encode(HeaderName \o ToDigits(ByteLength(Stringify(m))) \o HeaderEnd \o Stringify(m))

\* the digits after HeaderName at position i, as \d+ takes them
RECURSIVE DigitRun(_, _)
DigitRun(str, i) ==
  IF i <= Len(str) /\ IsDigit(str[i]) THEN <<str[i]>> \o DigitRun(str, i + 1) ELSE <<>>

MatchesAt(str, i) ==
  /\ StartsWithAt(str, i, HeaderName)
  /\ DigitRun(str, i + Len(HeaderName)) # <<>>
  /\ StartsWithAt(str, i + Len(HeaderName) + Len(DigitRun(str, i + Len(HeaderName))), HeaderEnd)

\* this.buffer.match(/Content-Length: (\d+)\r\n\r\n/): the leftmost match
\* (0 = none), its capture and the length of the matched text
HeaderMatch(str) ==
  LET I == {i \in 1..Len(str) : MatchesAt(str, i)}
  IN IF I = {} THEN [at |-> 0, digits |-> <<>>, length |-> 0]
     ELSE LET i == CHOOSE x \in I : \A y \in I : x <= y
              ds == DigitRun(str, i + Len(HeaderName))
          IN [at |-> i, digits |-> ds,
              length |-> Len(HeaderName) + Len(ds) + Len(HeaderEnd)]

\* processBuffer: buf is this.buffer, out the messages handed to handleMessage
RECURSIVE processBuffer(_, _)
processBuffer(buf, out) ==
  LET headerMatch == HeaderMatch(buf)
      contentLength == parseInt(headerMatch.digits)
      headerLength == headerMatch.length
      totalLength == headerLength + contentLength
      messageStr == Slice(buf, headerLength, totalLength)
  IN IF headerMatch.at = 0 THEN [buffer |-> buf, emitted |-> out]
     ELSE IF Len(buf) < totalLength THEN [buffer |-> buf, emitted |-> out]
     ELSE processBuffer(Slice(buf, totalLength, Len(buf)), out \o Parse(messageStr))

\* the stdout 'data' handler: this.buffer += data.toString(); this.processBuffer()
onData(buf, out, data) == processBuffer(buf \o Decode(data), out)

Texts == UNION {[1..n -> TextChars] : n \in 0..MaxTextLen}
Messages == {[id |-> 1, result |-> t] : t \in Texts}

\* the chunks of bytes cut at the places in cuts
Chunks(bytes, cuts) ==
  LET ends == cuts \cup {Len(bytes)}
      Prev(e) == IF \E c \in ends : c < e
                   THEN CHOOSE c \in ends : c < e /\ \A d \in ends : d < e => d <= c
                   ELSE 0
      Nth[k \in 1..Cardinality(ends)] ==
        CHOOSE e \in ends : Cardinality({c \in ends : c <= e}) = k
  IN [k \in 1..Cardinality(ends) |-> SubSeq(bytes, Prev(Nth[k]) + 1, Nth[k])]

\* one framed message on the stream of a client, cut into chunks somewhere
FramerInit ==
  /\ FreshClients
  /\ nSessions = 1
  /\ path = [s \in Sess |-> IF s = 1 THEN "/a" ELSE ""]
  /\ exposed = {}
  /\ buffer = <<>>
  /\ delivered = 0
  /\ emitted = <<>>
  /\ \E m \in Messages :
       /\ frame = <<m>>
       /\ \E cut \in [1..MaxCuts -> 0..(Len(FullMessage(m)) - 1)] :
            wire = Chunks(FullMessage(m), {cut[k] : k \in 1..MaxCuts} \ {0})

\* the stream delivers its next chunk to the data handler
Data ==
  /\ delivered < Len(wire)
  /\ LET r == onData(buffer, emitted, wire[delivered + 1])
     IN /\ buffer' = r.buffer
        /\ emitted' = r.emitted
  /\ delivered' = delivered + 1
  /\ UNCHANGED <<wire, frame>>
  /\ UNCHANGED sessionVars

FramerNext == Data

FramerSpec == FramerInit /\ [][FramerNext]_vars

\* payloads that are not JSON, and the frame of one: a correct header in
\* front of the payload
BadPayloads == {t \in Texts : Len(t) <= 1}
BadFrame(t) == Encode(HeaderName \o ToDigits(ByteLength(t)) \o HeaderEnd \o t)

\* a frame whose payload is not JSON, followed on the stream by a framed
\* message; the stream is cut into at most two chunks
MalformedInit ==
  /\ FreshClients
  /\ nSessions = 1
  /\ path = [s \in Sess |-> IF s = 1 THEN "/a" ELSE ""]
  /\ exposed = {}
  /\ buffer = <<>>
  /\ delivered = 0
  /\ emitted = <<>>
  /\ \E t \in BadPayloads, m \in Messages :
       /\ frame = <<m>>
       /\ \E cut \in 0..(Len(BadFrame(t) \o FullMessage(m)) - 1) :
            wire = Chunks(BadFrame(t) \o FullMessage(m), {cut} \ {0})

MalformedSpec == MalformedInit /\ [][FramerNext]_vars

\* The MCP client looks definitions up on a serving registry and follows the
\* locations it is given: the server answers a definition request with a
\* Location, whose start is at most at line MaxLine, character MaxCharacter.
MaxLine == 1
MaxCharacter == 1

PositionNext ==
  \/ \E file \in Docs, line \in 1..(MaxLine + 1), character \in 0..(MaxCharacter + 1) :
       GotoDefinitionTool(file, line, character)
  \/ \E i \in 1..MaxTasks : ReadFileDone(i, "ok")
  \/ \E p \in Proc, id \in Ids, uri \in Docs, line \in 0..MaxLine, character \in 0..MaxCharacter :
       Response(p, id, FALSE, <<uri, line, character>>)

PositionSpec == ServingInit /\ [][PositionNext]_vars

\* the workspace identifiers clients are constructed with: roots with and
\* without a '#' of their own, bare and with the isolation tag appended
RootKeys == {"/a", "/a#typescript-lsp", "/a#b", "/a#b#typescript-lsp"}

\* the characters of an identifier
Chars(str) ==
  LET tag == <<"#", "t", "y", "p", "e", "s", "c", "r", "i", "p", "t", "-", "l", "s", "p">>
  IN IF str = "/a" THEN <<"/", "a">>
     ELSE IF str = "/a#typescript-lsp" THEN <<"/", "a">> \o tag
     ELSE IF str = "/a#b" THEN <<"/", "a", "#", "b">>
     ELSE IF str = "/a#b#typescript-lsp" THEN <<"/", "a", "#", "b">> \o tag
     ELSE <<>>

\* constructor: workspaceRoot.includes('#') ? workspaceRoot.split('#')[0] : workspaceRoot
constructor(chars) ==
  LET Hashes == {i \in 1..Len(chars) : chars[i] = "#"}
  IN IF Hashes # {}
       THEN SubSeq(chars, 1, (CHOOSE i \in Hashes : \A j \in Hashes : i <= j) - 1)
       ELSE chars

\* Session.workspaceRoot, set once by the constructor: the cwd of the
\* subprocess (line 147), rootPath and rootUri (lines 210-211)
workspaceRoot(s) == constructor(Chars(path[s]))

\* new TypeScriptLSPClient(key)
Construct(key) ==
  /\ nSessions < NSess
  /\ Commit([Cur EXCEPT !.nSessions = @ + 1, !.path[nSessions + 1] = key,
                        !.exposed = @ \cup {nSessions + 1}])

\* clients are constructed for workspace identifiers and initialized
RootNext ==
  \/ \E key \in RootKeys : Construct(key)
  \/ \E s \in Sess : InitializeCall(s)
  \/ \E i \in 1..MaxTasks : MkdirDone(i)
  \/ \E p \in Proc : ProcSpawn(p)
  \/ \E p \in Proc, id \in Ids : Response(p, id, FALSE, ResultOf(id))

RootSpec == Init /\ [][RootNext]_vars

\* callers open the source files of a workspace on an initialized client;
\* every file exists and is read
LanguageNext ==
  \/ \E s \in Sess, file \in SourceFiles : EnsureDocumentOpen(s, file)
  \/ \E i \in 1..MaxTasks : ReadFileDone(i, "ok")

LanguageSpec == InitializedInit /\ [][LanguageNext]_vars

\* the owner of a client registers a listener: client.on(method, listener)
On(s, method) ==
  /\ s \in exposed
  /\ Commit([Cur EXCEPT !.listeners[s] = @ \cup {method}])

\* the subprocess writes a message: a response to a request it has read, a
\* notification, or a request of its own
Message(p, m) ==
  /\ procs[p].st = "running" /\ procs[p].dataH /\ ~procs[p].killed
  /\ IsResponse(m) => m.id \in inbox[p]
  /\ LET s == procs[p].owner
     IN IF IsResponse(m)
          THEN Commit(resume(tryHandleMessage([Cur EXCEPT !.inbox[p] = @ \ {m.id}], s, m),
                             s, m.id))
          ELSE Commit(tryHandleMessage(Cur, s, m))

\* an initialized client whose owner listens for server events and sends requests
ListenerNext ==
  \/ \E s \in Sess, method \in Methods : On(s, method)
  \/ \E p \in Proc, m \in Incoming : Message(p, m)
  \/ \E s \in Sess : UserRequest(s)

ListenerSpec == InitializedInit /\ [][ListenerNext]_vars

\* two framed messages, one behind the other on the stream, delivered in one
\* chunk or cut into two chunks anywhere
MaxFrames == 2
ShortTexts == {t \in Texts : Len(t) <= 1}
StreamOf(ms) == FullMessage(ms[1]) \o FullMessage(ms[2])
SequenceInit ==
  /\ FreshClients
  /\ nSessions = 1
  /\ path = [s \in Sess |-> IF s = 1 THEN "/a" ELSE ""]
  /\ exposed = {}
  /\ buffer = <<>>
  /\ delivered = 0
  /\ emitted = <<>>
  /\ \E t \in [1..MaxFrames -> ShortTexts] :
       /\ frame = [k \in 1..MaxFrames |-> [id |-> k, result |-> t[k]]]
       /\ \E cut \in 0..(Len(StreamOf(frame)) - 1) :
            wire = Chunks(StreamOf(frame), {cut} \ {0})

SequenceSpec == SequenceInit /\ [][FramerNext]_vars

\* ---------------------------------------------------------------------
\* Properties
\* ---------------------------------------------------------------------
NotRunning == <<"TypeScript Language Server not running">>
TimedOut == <<"Request timeout">>

\* C1: whatever the order of the responses, the promise of request i is
\* settled with the payload of the response that carries id i: resolved with
\* the result computed for i, or rejected with the error reported for i.
C1_OwnResult ==
  \A s \in Sess, i \in Ids :
    LET r == promise[s][i]
    IN /\ r.st = "resolved" => r.val = ResultOf(i)
       /\ r.st = "rejected" /\ r.val \notin {NotRunning, TimedOut} => r.val = <<"error", i>>

\* two requests outstanding at once, the later one answered first
C1_Witness ==
  /\ promise[1][2].method = "user" /\ promise[1][3].method = "user"
  /\ 2 \in pendingRequests[1] /\ promise[1][2].st = "pending"
  /\ promise[1][3].st = "resolved"

\* C2: every promise returned by sendRequest settles.  Only a response and
\* the request's own 10 s timer settle it, so at the latest the timer does:
\* a promise that is still pending has its timer still ahead.
C2_SettlesByDeadline ==
  \A s \in Sess, i \in Ids :
    promise[s][i].st = "pending" => promise[s][i].timer >= 0

\* C3: a request that was written to the subprocess, got no response and
\* whose timer has run is rejected exactly once, with the timeout error, 10 s
\* after it was sent, and has left the pending table.
C3_TimeoutRejectsOnce ==
  \A s \in Sess, i \in Ids :
    LET r == promise[s][i]
    IN r.st \in {"pending", "rejected"} /\ r.timer = -1
         /\ r.val \notin {NotRunning, <<"error", i>>}
       => /\ r.st = "rejected" /\ r.val = TimedOut /\ r.calls = 1
          /\ r.age = RequestTimeoutMs
          /\ i \notin pendingRequests[s]

Unsplit(m) == onData(<<>>, <<>>, FullMessage(m)).emitted

\* C5: a frame written by sendMessage and handed to the data handler in one
\* piece yields exactly the framed message and leaves the buffer empty.
C5_RoundTrip ==
  Len(wire) = 1 /\ delivered = 1 => emitted = frame /\ buffer = <<>>

\* C6: however the bytes of a frame are cut into chunks, nothing is emitted
\* before the last chunk has arrived, and then exactly one message is
\* emitted, the one the uncut frame yields.
C6_ChunkIndependence ==
  /\ delivered < Len(wire) => emitted = <<>>
  /\ delivered = Len(wire) => Len(emitted) = 1 /\ emitted = Unsplit(frame[1])

\* the subprocesses started for key k that are alive
LiveFor(k) ==
  {p \in Proc : /\ procs[p].st \in {"spawning", "running"} /\ ~procs[p].killed
                /\ procs[p].owner # 0 /\ path[procs[p].owner] = k}

\* C7: a getOrCreateWorkspace(k) call made while k is registered returns the
\* Session every earlier call for k returned since k was last closed, and
\* constructs and spawns nothing; Sessions returned for different keys differ.
C7_Reuse ==
  /\ [][\A k \in Keys :
          workspaces[k] # 0 /\ GetOrCreateWorkspace(k)
            => /\ returned[k] \subseteq {workspaces[k]}
               /\ procs' = procs /\ nSessions' = nSessions]_vars
  /\ [](\A k1, k2 \in Keys : k1 # k2 => returned[k1] \cap returned[k2] = {})

\* C8: all getOrCreateWorkspace calls for one key return the same Session,
\* at most one subprocess is alive for the key, and an initialized Session
\* with a subprocess is the one registered under its key.
C8_OneSessionPerKey ==
  \A k \in Keys :
    /\ Cardinality(returned[k]) <= 1
    /\ Cardinality(LiveFor(k)) <= 1
    /\ \A s \in 1..nSessions :
         path[s] = k /\ initialized[s] /\ process[s] # 0 => workspaces[k] = s

\* C9: a Session in the registry is one whose initialize() completed and did
\* not throw, and the step in which an initialize() throws leaves the
\* registry and the Sessions handed out as they were.
C9_RegisteredAfterInit ==
  /\ [](\A k \in Keys : workspaces[k] # 0 => workspaces[k] \in initOk \ initFailed)
  /\ [][initFailed' # initFailed => workspaces' = workspaces /\ returned' = returned]_vars

\* an initialize() started by getOrCreateWorkspace has thrown; its key is not registered
C9_Witness ==
  \E s \in initFailed : workspaces[path[s]] = 0 /\ Idle(s) /\ s \notin exposed

\* a Session in the Closed state
Closed(s) ==
  /\ ~initialized[s]
  /\ openDocuments[s] = <<>>
  /\ pendingRequests[s] = {}
  /\ process[s] = 0
  /\ \A p \in Proc : procs[p].owner = s => procs[p].killed

\* C10: in the step in which closeAll() returns, the registry becomes empty
\* and every Session that was registered when closeAll() was called is Closed.
C10_BulkTeardown ==
  [][closeAllWaiting # -1 /\ closeAllWaiting' = -1
       => /\ \A k \in Keys : workspaces'[k] = 0
          /\ \A s \in closeAllSnapshot : Closed(s)']_vars

\* a subprocess that runs and that nobody has asked to stop
Alive(p) == procs[p].st \in {"spawning", "running"} /\ ~procs[p].killed

\* C11: in the step in which closeAll() returns, no subprocess spawned
\* through the registry is left alive.
C11_NoOrphan ==
  [][closeAllWaiting # -1 /\ closeAllWaiting' = -1
       => \A p \in Proc : ~Alive(p)']_vars

\* C12: every shutdown() returns.  A shutdown() that awaits its shutdown
\* request is resumed by the response or, at the latest, by the request's
\* 10 s timer: while it waits, that timer is still ahead.
C12_TeardownCompletes ==
  \A i \in 1..Len(tasks) :
    tasks[i].kind = "shutdown" /\ tasks[i].pc = "request"
      => promise[tasks[i].s][tasks[i].id].timer >= 0

\* C13: in the step in which the subprocess of a Session exits without having
\* been killed, every request pending on the Session is rejected and the
\* Session is Closed.
C13_ExitRejectsPending ==
  [][\A p \in Proc :
       procs[p].st = "running" /\ ~procs[p].killed /\ procs'[p].st = "exited"
       /\ process[procs[p].owner] = p
         => /\ \A i \in pendingRequests[procs[p].owner] :
                 promise'[procs[p].owner][i].st = "rejected"
            /\ Closed(procs[p].owner)']_vars

\* C14: in the step in which a spawned subprocess exits, cleanup runs on its
\* Session: afterwards the pending table and the document set are empty, the
\* Session is not initialized and holds no subprocess handle.
C14_ExitRunsCleanup ==
  [][\A p \in Proc :
       procs[p].st = "running" /\ procs'[p].st = "exited"
         => /\ pendingRequests'[procs[p].owner] = {}
            /\ openDocuments'[procs[p].owner] = <<>>
            /\ ~initialized'[procs[p].owner]
            /\ process'[procs[p].owner] = 0]_vars


\* the fields of the client objects, and what the clients act on outside
\* themselves: subprocesses, their stdin, suspended calls and the disk
SessionFields == <<path, process, requestId, pendingRequests, initialized,
                   openDocuments, tempDir, promise>>
Outside == <<procs, stdin, inbox, tasks, disk>>

\* openDocuments.has(uri)
Tracked(s, uri) == \E i \in 1..Len(openDocuments[s]) : openDocuments[s][i] = uri

\* the didOpen notification openDocument writes for a file it has read
DidOpenOf(uri) ==
  [Msg("textDocument/didOpen", 0, uri) EXCEPT
     !.languageId = languageIdOf(uri), !.text = FileContent, !.version = 1]

\* C15: on an Initialized Session the ensureDocumentOpen(p) that reads the
\* file writes exactly one textDocument/didOpen for p, and an
\* ensureDocumentOpen(p) called after it has returned, p still being tracked,
\* returns at once: it writes nothing and changes no state.
C15_OpenIdempotent ==
  [][\A s \in Sess, uri \in Paths :
       /\ (\E i \in 1..Len(tasks) :
             /\ tasks[i].s = s /\ tasks[i].arg = uri
             /\ ReadFileDone(i, "ok") /\ initialized[s] /\ process[s] # 0)
            => /\ stdin'[process[s]] = Append(stdin[process[s]], DidOpenOf(uri))
               /\ Tracked(s, uri)'
       /\ (EnsureDocumentOpen(s, uri) /\ initialized[s] /\ Tracked(s, uri))
            => /\ UNCHANGED <<SessionFields, Outside>>
               /\ docResult'[s] = "already open"]_vars

\* the second of two consecutive calls has returned: the file is tracked,
\* one didOpen was written for it and nothing is suspended
C15_Witness ==
  \E s \in Sess, uri \in Paths :
    /\ initialized[s] /\ Tracked(s, uri) /\ tasks = <<>>
    /\ docResult[s] = "already open"
    /\ Len(SelectSeq(stdin[process[s]], LAMBDA m : m = DidOpenOf(uri))) = 1


\* C16: whatever the interleaving of ensureDocumentOpen(p) calls, two
\* textDocument/didOpen for p written to a subprocess have a
\* textDocument/didClose for p between them.
C16_OpenedOnce ==
  \A p \in Proc : \A i, j \in 1..Len(stdin[p]) :
    /\ i < j
    /\ stdin[p][i].method = "textDocument/didOpen"
    /\ stdin[p][j].method = "textDocument/didOpen"
    /\ stdin[p][i].uri = stdin[p][j].uri
    => \E k \in (i + 1)..(j - 1) :
         /\ stdin[p][k].method = "textDocument/didClose"
         /\ stdin[p][k].uri = stdin[p][i].uri


\* the didOpen notification ensureDocumentOpen writes for a missing file
PlaceholderOf(uri) ==
  [Msg("textDocument/didOpen", 0, uri) EXCEPT
     !.languageId = "typescript", !.text = Placeholder, !.version = 1]

\* C17: when the read of an ensureDocumentOpen(p) on an Initialized Session
\* ends with ENOENT, the call returns without an error: it has written one
\* textDocument/didOpen for p with the placeholder text and version 1, p's uri
\* is tracked, and the Session is still Initialized on the same subprocess,
\* so the request that follows is sent.
C17_MissingFilePlaceholder ==
  [][\A s \in Sess, uri \in Paths :
       (\E i \in 1..Len(tasks) :
          /\ tasks[i].s = s /\ tasks[i].arg = uri
          /\ ReadFileDone(i, "ENOENT") /\ initialized[s])
         => /\ docResult'[s] = "opened"
            /\ stdin'[process[s]] = Append(stdin[process[s]], PlaceholderOf(uri))
            /\ Tracked(s, uri)'
            /\ initialized'[s]
            /\ process'[s] = process[s]]_vars

\* a missing file has just been opened as a placeholder
C17_Witness ==
  \E s \in Sess, uri \in Paths :
    /\ initialized[s] /\ process[s] # 0 /\ docResult[s] = "opened"
    /\ Tracked(s, uri)
    /\ stdin[process[s]][Len(stdin[process[s]])] = PlaceholderOf(uri)


\* C18: an ensureDocumentOpen(p) that fails for another reason than a missing
\* file fails before anything is written.  The call on a Session that is not
\* initialized throws and changes nothing; when the read ends with another
\* error than ENOENT, the caller gets that error, no didOpen is written and
\* the tracked set is unchanged.
C18_OtherErrorsPropagate ==
  [][\A s \in Sess, uri \in Paths :
       /\ (EnsureDocumentOpen(s, uri) /\ ~initialized[s] /\ ~Tracked(s, uri))
            => /\ docResult'[s] = "TypeScript Language Server not initialized"
               /\ UNCHANGED <<stdin, openDocuments>>
       /\ (\E i \in 1..Len(tasks) :
             /\ tasks[i].s = s /\ tasks[i].arg = uri
             /\ ReadFileDone(i, "EACCES"))
            => /\ docResult'[s] = ErrorMessage(<<"Failed to open document", uri, "EACCES">>)
               /\ UNCHANGED <<stdin, openDocuments>>]_vars


\* C19: initialize() called on an Initialized Session returns at once: no
\* subprocess is spawned, no scratch directory is created, nothing is written
\* and every field of the Session keeps its value.
C19_InitializeNoOp ==
  [][\A s \in Sess :
       InitializeCall(s) /\ initialized[s]
         => UNCHANGED <<SessionFields, Outside>>]_vars

\* an Initialized Session on which initialize() can be, and has been, called:
\* the call leaves this very state
C19_Witness ==
  \E s \in exposed :
    /\ initialized[s] /\ Idle(s) /\ s \in initOk
    /\ ENABLED InitializeCall(s)


\* a Session that was Initialized once and is not any more: cleanup() has run
\* on it, from shutdown() or from the exit handler
WasClosed(s) == s \in initOk /\ ~initialized[s]

\* C20: a Session that has been closed stays closed: no step makes it
\* Initialized again, and no subprocess is spawned for it.
C20_ClosedIsTerminal ==
  [][\A s \in Sess :
       WasClosed(s)
         => /\ ~initialized'[s]
            /\ \A p \in Proc :
                 procs[p] = NoProc /\ procs'[p] # NoProc => procs'[p].owner # s]_vars


\* the subprocesses spawned by Session s that are alive
LiveProcs(s) == {p \in Proc : procs[p].owner = s /\ Alive(p)}

\* C21: once shutdown() was called on a Session and every call on it has
\* returned (shutdown() itself and the initialize() that was in flight), the
\* Session has no tracked documents, no pending requests, no live subprocess
\* and is not initialized, until initialize() is called again.
C21_ShutdownFromAnyState ==
  \A s \in shutdownCalled :
    Idle(s) => /\ openDocuments[s] = <<>>
               /\ pendingRequests[s] = {}
               /\ LiveProcs(s) = {}
               /\ ~initialized[s]

\* C22: at most one of the subprocesses a Session has spawned is alive.
C22_OneSubprocess == \A s \in Sess : Cardinality(LiveProcs(s)) <= 1


\* request id of Session s fails in this step: its timer fires, or the
\* subprocess answers it with a JSON-RPC error
Fails(s, id) ==
  \/ RequestTimeout(s, id)
  \/ \E p \in Proc : procs[p].owner = s /\ Response(p, id, TRUE, <<"error", id>>)

\* C23: when a pending request fails by its timeout or by an error response,
\* its promise is rejected and only its entry leaves the pending table: the
\* promises of the other requests, the initialized flag, the tracked
\* documents, the subprocess handle and the subprocesses are unchanged.  (The
\* request shutdown() sends is left out: its caller is shutdown(), which goes
\* on to close the Session.)
C23_FailureIsLocal ==
  [][\A s \in Sess, id \in Ids :
       id \in pendingRequests[s] /\ promise[s][id].method # "shutdown" /\ Fails(s, id)
         => /\ promise'[s][id].st = "rejected"
            /\ pendingRequests'[s] = pendingRequests[s] \ {id}
            /\ \A j \in Ids \ {id} : promise'[s][j] = promise[s][j]
            /\ UNCHANGED <<initialized, openDocuments, process, procs, stdin>>]_vars

\* a request has timed out on an Initialized Session, and a request sent after
\* that is pending in the subprocess
C23_Witness ==
  \E s \in Sess, i, j \in Ids :
    /\ initialized[s] /\ process[s] # 0 /\ i < j
    /\ promise[s][i].st = "rejected" /\ promise[s][i].val = TimedOut
    /\ promise[s][j].st = "pending" /\ promise[s][j].age = 0
    /\ j \in pendingRequests[s] /\ j \in inbox[process[s]]


\* C24: a response whose id is not in the pending table, because the id was
\* never issued or because the request was completed, timed out or dropped
\* before, settles no promise and changes nothing in the Session, its
\* subprocesses or its suspended calls.
C24_UnknownIdIgnored ==
  [][\A p \in Proc, id \in Ids, isError \in BOOLEAN :
       /\ procs[p].st = "running"
       /\ id \notin pendingRequests[procs[p].owner]
       /\ \/ UnknownResponse(p, id, isError)
          \/ Response(p, id, isError, IF isError THEN <<"error", id>> ELSE ResultOf(id))
       => UNCHANGED <<SessionFields, procs, stdin, tasks, disk, initFailed, initOk>>]_vars

\* the answer to a request arrived after the request had timed out: the
\* subprocess has answered it and the promise is as the timer left it
C24_Witness ==
  \E s \in Sess, i \in Ids :
    /\ process[s] # 0 /\ procs[process[s]].st = "running" /\ ~procs[process[s]].killed
    /\ \E k \in 1..Len(stdin[process[s]]) : stdin[process[s]][k].id = i
    /\ i \notin inbox[process[s]]
    /\ promise[s][i].st = "rejected" /\ promise[s][i].val = TimedOut
    /\ promise[s][i].calls = 1


\* C26: on the stdin of every subprocess, each message other than the
\* initialize request comes after the initialized notification.
C26_HandshakeFirst ==
  \A p \in Proc : \A k \in 1..Len(stdin[p]) :
    stdin[p][k].method # "initialize"
      => \E j \in 1..k : stdin[p][j].method = "initialized"


\* C27: in the step in which an initialize() that has created its scratch
\* directory or spawned its subprocess fails, no subprocess of the Session is
\* left alive and no scratch directory of the Session is left on the disk.
C27_FailedInitializeReleases ==
  [][\A s \in Sess :
       initError'[s] # ""
         => /\ LiveProcs(s)' = {}
            /\ \A d \in disk' : d[1] # s]_vars


\* the errors with which startupPromise can be rejected
StartupErrors == {StartupTimedOut} \cup {SpawnFailed(c) : c \in SpawnCauses}

\* initialize() of Session s awaits the startup of subprocess p
AwaitsStartup(s, p) ==
  \E i \in 1..Len(tasks) :
    /\ tasks[i].kind = "initialize" /\ tasks[i].pc = "startup"
    /\ tasks[i].s = s /\ tasks[i].p = p

\* C28: the first of 'spawn', 'error' and the 5 s timer decides the startup an
\* initialize() awaits.  'spawn' first: the call leaves the startup without a
\* startup error.  'error' first: the call fails with the spawn failure that
\* carries the cause.  Timer first: the call fails with the startup timeout.
\* Once decided, no event gives the Session a startup error: a later 'error'
\* or timer does not fail the call.
C28_FirstEventDecides ==
  [][\A s \in Sess :
       /\ \A p \in Proc :
            AwaitsStartup(s, p)
              => /\ ProcSpawn(p)
                      => initError'[s] \notin StartupErrors /\ ~AwaitsStartup(s, p)'
                 /\ ProcError(p)
                      => /\ initError'[s] \in {SpawnFailed(c) : c \in SpawnCauses}
                         /\ Idle(s)'
                 /\ (\E i \in 1..Len(tasks) : tasks[i].p = p /\ StartupTimeout(i))
                      => initError'[s] = StartupTimedOut /\ Idle(s)'
       /\ (\A p \in Proc : ~AwaitsStartup(s, p))
            => initError'[s] \notin StartupErrors]_vars

\* 'spawn' came first: initialize() has left the startup with its timer
\* cleared, has sent the initialize request and awaits the handshake
C28_Witness ==
  \E i \in 1..Len(tasks) :
    /\ tasks[i].kind = "initialize" /\ tasks[i].pc = "handshake"
    /\ procs[tasks[i].p].st = "running"
    /\ tasks[i].t1 = -1
    /\ tasks[i].id \in pendingRequests[tasks[i].s]
    /\ initError[tasks[i].s] = ""


\* an initialize() call on Session s is suspended
Initializing(s) == \E i \in 1..Len(tasks) : tasks[i].kind = "initialize" /\ tasks[i].s = s

\* C29: every initialize() call returns or fails: a suspended initialize()
\* does not stay suspended forever, whatever the subprocess does.
C29_InitializeReturns == \A s \in Sess : Initializing(s) ~> ~Initializing(s)

\* an initialize() has just failed at the handshake timeout while its
\* initialize request, dropped from the pending table by cleanup, was never settled
C29_Witness ==
  \E s \in Sess, id \in Ids :
    /\ initError[s] = InitTimedOut
    /\ promise[s][id].method = "initialize" /\ promise[s][id].st = "pending"
    /\ id \notin pendingRequests[s]
    /\ ~Initializing(s)


\* C30: a complete frame whose payload is not JSON hands nothing to
\* handleMessage, and the well-formed frame that follows it on the stream is
\* parsed and handled: when the whole stream has arrived, the messages handed
\* over are exactly the well-formed ones.
C30_MalformedDropped == delivered = Len(wire) => emitted = frame

\* C25: every failure of a tool operation reaches the MCP caller as a tool
\* result with isError true: a goto-definition result whose operation threw,
\* or whose file did not exist when it was read, carries isError.
C25_FailuresAreErrors ==
  toolResult # NoResult /\ (toolResult.failed \/ toolResult.missing)
    => toolResult.isError

\* C31: k well-formed frames, however the stream is cut into chunks, make
\* handleMessage run exactly k times, once per frame and in stream order:
\* what was handed over is always a prefix of the frames, and all of them
\* once the whole stream has arrived.
C31_FramesInOrder ==
  /\ Len(emitted) <= Len(frame)
  /\ emitted = SubSeq(frame, 1, Len(emitted))
  /\ delivered = Len(wire) => Len(emitted) = Len(frame)

\* C32: a message is handed to the listeners of its method name only if it
\* carries a method and no id; a server-to-client request, which carries
\* both, is not dispatched as a notification.
C32_OnlyNotificationsDispatched ==
  \A k \in 1..Len(dispatched) : dispatched[k].method # "" /\ dispatched[k].id = 0

\* C33: the languageId of the textDocument/didOpen written for an existing
\* file is 'javascript' for .js, 'javascriptreact' for .jsx,
\* 'typescriptreact' for .tsx and 'typescript' for every other path.
C33_LanguageIdByExtension ==
  \A p \in Proc : \A i \in 1..Len(stdin[p]) :
    stdin[p][i].method = "textDocument/didOpen" /\ stdin[p][i].text = FileContent
      => stdin[p][i].languageId =
           IF endsWith(stdin[p][i].uri, ".js") THEN "javascript"
           ELSE IF endsWith(stdin[p][i].uri, ".jsx") THEN "javascriptreact"
           ELSE IF endsWith(stdin[p][i].uri, ".tsx") THEN "typescriptreact"
           ELSE "typescript"

\* the shutdown() call of Session s that awaits the response to its request id
AwaitsShutdown(s, id) ==
  \E i \in 1..Len(tasks) : /\ tasks[i].kind = "shutdown" /\ tasks[i].pc = "request"
                           /\ tasks[i].s = s /\ tasks[i].id = id

\* C34: shutdown() on an Initialized Session writes the shutdown request
\* first and the exit notification only after it; when the request settles,
\* resolved or rejected by an error response or the timeout, the subprocess
\* is killed and the scratch directory removed, and an exit notification is
\* never written ahead of that step or without a shutdown request before it.
C34_ShutdownSequence ==
  [][/\ \A s \in Sess, id \in Ids, p \in Proc :
          /\ AwaitsShutdown(s, id)
          /\ process[s] = p
          /\ promise[s][id].st = "pending"
          /\ promise'[s][id].st # "pending"
          => /\ procs'[p].killed
             /\ process'[s] = 0
             /\ <<s, tempDir[s]>> \notin disk'
             /\ promise'[s][id].st = "resolved"
                  => stdin'[p] = Append(stdin[p], Msg("exit", 0, ""))
     /\ \A p \in Proc :
          /\ stdin'[p] # stdin[p]
          /\ stdin'[p][Len(stdin'[p])].method = "exit"
          => /\ \E j \in 1..Len(stdin[p]) : stdin[p][j].method = "shutdown"
             /\ ~procs[p].killed /\ procs'[p].killed
    ]_vars

C34_Witness ==
  \E s \in Sess, id \in Ids, p \in Proc :
    /\ promise[s][id].method = "shutdown"
    /\ promise[s][id].st = "rejected"
    /\ procs[p].owner = s /\ procs[p].killed
    /\ process[s] = 0
    /\ \E j \in 1..Len(stdin[p]) : stdin[p][j].method = "shutdown"
    /\ \A j \in 1..Len(stdin[p]) : stdin[p][j].method # "exit"
    /\ <<s, tempDir[s]>> \notin disk

\* C35: the exit notification is the last message a Session writes to its
\* subprocess: nothing, in particular no textDocument/didClose, follows it.
C35_ExitIsLast ==
  \A p \in Proc : \A i \in 1..Len(stdin[p]) :
    stdin[p][i].method = "exit" => i = Len(stdin[p])

\* C36: in every reachable state the pending-request table holds exactly the
\* ids of the requests whose promise has not settled; once a promise has
\* settled, by a response, the timeout or sendRequest failing for lack of a
\* subprocess, its id is absent from the table.
C36_PendingTable ==
  \A s \in Sess, id \in Ids :
    id \in pendingRequests[s] <=> promise[s][id].st = "pending"

\* C37: getOrCreateWorkspace returns from the registry only a live Session:
\* one that is Initialized, whose subprocess is running and was not killed,
\* and on which no shutdown() has begun.
C37_ReturnsLiveSession ==
  [][\A k \in Keys :
       workspaces[k] # 0 /\ GetOrCreateWorkspace(k)
         => /\ initialized[workspaces[k]]
            /\ process[workspaces[k]] # 0
            /\ procs[process[workspaces[k]]].st = "running"
            /\ ~procs[process[workspaces[k]]].killed
            /\ \A i \in 1..Len(tasks) :
                 ~(tasks[i].kind = "shutdown" /\ tasks[i].s = workspaces[k])]_vars

\* C38: the Session constructed for the key P + '#typescript-lsp' uses
\* exactly P as its workspace root, whether or not P contains '#', and a
\* Session constructed for a key without the tag uses the key unchanged;
\* that root is the working directory of the subprocess it spawns.
C38_TagRoundTrip ==
  \A s \in 1..nSessions :
    LET key == Chars(path[s])
        tag == Chars("/a#typescript-lsp")
        n == Len(key) - (Len(tag) - 2)
    IN process[s] # 0 =>
         IF n >= 0 /\ SubSeq(key, n + 1, Len(key)) = SubSeq(tag, 3, Len(tag))
           THEN workspaceRoot(s) = SubSeq(key, 1, n)
           ELSE workspaceRoot(s) = key

\* C39: a location printed by formatLocation as path:L:C and given back as
\* (file = path, line = L, character = C) to goto-definition produces a
\* request whose position is the 0-based line and character the server had
\* answered with.
C39_PositionRoundTrip ==
  [][\A file \in Docs, line \in 1..(MaxLine + 1), character \in 0..(MaxCharacter + 1) :
       /\ toolResult.location = <<file, line, character>>
       /\ GotoDefinitionTool(file, line, character)
       => /\ \A i \in 1..Len(tasks') :
               tasks'[i].kind = "gotoDefinition"
                 => tasks'[i].position = <<toolResult.answer[2], toolResult.answer[3]>>
          /\ \A p \in Proc :
               Len(stdin'[p]) > Len(stdin[p])
                 => stdin'[p][Len(stdin'[p])].position
                      = <<toolResult.answer[2], toolResult.answer[3]>>]_vars

\* C40: the cleanup of a Session writes one textDocument/didClose for every
\* tracked uri, in the order of the set, before the set is cleared and the
\* subprocess is killed; whether or not the writes succeed, the step leaves
\* the set empty, the subprocess killed and released, and the scratch
\* directory handed to rm.
C40_BulkClose ==
  [][\A s \in Sess :
       openDocuments[s] # <<>> /\ openDocuments'[s] = <<>>
         => LET p == process[s]
                n == Len(openDocuments[s])
            IN /\ p # 0 =>
                    /\ ~procs[p].killed /\ procs'[p].killed
                    /\ Len(stdin'[p]) >= Len(stdin[p]) + n
                    /\ \A k \in 1..n :
                         stdin'[p][Len(stdin'[p]) - n + k]
                           = Msg("textDocument/didClose", 0, openDocuments[s][k])
               /\ process'[s] = 0
               /\ ~initialized'[s]
               /\ <<s, tempDir[s]>> \notin disk']_vars

\* a Session that tracked two documents was cleaned up: its subprocess got
\* both didClose notifications and was killed
C40_Witness ==
  \E s \in Sess, p \in Proc :
    /\ procs[p].owner = s /\ procs[p].killed
    /\ process[s] = 0 /\ openDocuments[s] = <<>>
    /\ Len(stdin[p]) >= 2
    /\ stdin[p][Len(stdin[p])].method = "textDocument/didClose"
    /\ stdin[p][Len(stdin[p]) - 1].method = "textDocument/didClose"
    /\ stdin[p][Len(stdin[p])].uri # stdin[p][Len(stdin[p]) - 1].uri

====
